---- MODULE Spec2Model ----
(***************************************************************************)
(* Partition reconciliation and synchronisation engine of the extractor:   *)
(* storage.py (coordinator), s3_storage.py and azure_storage.py (clean     *)
(* phase, planner, batch delete, upload).                                  *)
(*                                                                         *)
(* Strings are sequences of tokens ("idEmpresa=", "1", "/", "Ano=", ...):  *)
(* a token never contains "/", so startswith, rstrip, split and the        *)
(* substring tests of the source act on them as they act on the strings.   *)
(***************************************************************************)
EXTENDS Integers, Sequences, FiniteSets, TLC

VARIABLES
    entrada,        \* entry point of the run: enviar_resultados, realizar_upload,
                    \* limpar_prefixo or definir_particoes
    destino_tipo,   \* "azure", "s3" or "ambos"
    dry_run,        \* the dry_run parameter of realizar_upload_* / limpar_prefixo_*
    local,          \* files of temp_dir, as paths relative to it (written with os_sep)
    cfg,            \* per backend: keys present in its configuration dict
    inicial,        \* per backend: object keys in the remote store before the run
    store,          \* per backend: object keys in the remote store
    fresh,          \* per backend: keys written by a put of this run
    deletados,      \* per backend: keys removed by a bulk delete of this run
    pc,             \* per backend: position in the pipeline
    particoes,      \* per backend: the reload list given to the clean phase
    existentes,     \* per backend: existing partitions given to the planner
    exclusao,       \* per backend: the planner's result (level -> set of keys)
    object_keys,    \* per backend: list of keys to delete
    lotes,          \* per backend: state of every bulk-delete chunk
    uploads,        \* per backend: state of every upload task (file -> state)
    tentativas,     \* per backend: number of put calls issued for every file
    falha,          \* per backend: the pipeline step that raised, or "nenhuma"
    resultado,      \* per backend: value returned to the coordinator
    coletados,      \* futures already yielded by as_completed, in order
    success_azure,  \* locals of enviar_resultados
    success_s3,
    sucesso,        \* return value of enviar_resultados
    execucao,       \* number of the current run of the sync (1 or 2)
    primeira,       \* what the first run left: its plan, its sent keys, the store
    workers,        \* the workers / max_workers parameter
    max_concurrency,    \* the max_concurrency parameter of realizar_upload_*
    os_sep,         \* os.sep of the machine the sync runs on
    prefix,         \* the prefix given to the remote lister called on its own
    listados,       \* per backend: the keys the remote lister returned
    sistema_executando, \* agent: the flag of the same name
    status_sistema,     \* agent: status_sistema["status"]
    processo_sistema,   \* agent: pid of the Popen object held, 0 for None
    vivos,          \* agent: pids of the main.py subprocesses that are alive
    pedidos,        \* agent: request -> [tipo, pc, p, codigo] of its handler thread
    monitores,      \* agent: pid -> [pc, alvo] of the monitor thread started for it
    respostas,      \* executar_consulta: what each successive attempt meets
    tentativa,      \* executar_consulta: attempts made
    pc_consulta,    \* executar_consulta: position
    retorno_consulta,   \* executar_consulta: the value returned
    consultas,      \* main: names of the configured queries, in order
    pastas_resultados,  \* main: names of the datasets to send, in order
    consultas_status,   \* main: dataset name -> status recorded by the loop
    retornos,       \* main: dataset name -> what its enviar_resultados call did
    pc_main,        \* main: position ("ocioso" when main is not running)
    atualizacao     \* main: outcome of the marker's enviar_resultados call, or "nao"

vars == <<entrada, destino_tipo, dry_run, local, cfg, inicial, store, fresh, deletados,
          pc, particoes, existentes, exclusao, object_keys, lotes, uploads, tentativas,
          falha, resultado, coletados, success_azure, success_s3, sucesso, execucao,
          primeira, workers, max_concurrency, os_sep, prefix, listados, consultas,
          pastas_resultados, consultas_status, retornos, pc_main, atualizacao,
          sistema_executando, status_sistema, processo_sistema, vivos, pedidos, monitores,
          respostas, tentativa, pc_consulta, retorno_consulta>>

Backends == {"azure", "s3"}

-----------------------------------------------------------------------------
(* Python string operations on token sequences *)

startswith(s, p) == Len(p) <= Len(s) /\ SubSeq(s, 1, Len(p)) = p

endswith_barra(s) == Len(s) > 0 /\ s[Len(s)] = "/"

contem(s, token) == \E i \in 1..Len(s) : s[i] = token

ultima_barra(s) ==
    IF \E i \in 1..Len(s) : s[i] = "/"
    THEN CHOOSE i \in 1..Len(s) : s[i] = "/" /\ \A j \in (i+1)..Len(s) : s[j] # "/"
    ELSE 0

primeira_barra(s) ==
    IF \E i \in 1..Len(s) : s[i] = "/"
    THEN CHOOSE i \in 1..Len(s) : s[i] = "/" /\ \A j \in 1..(i-1) : s[j] # "/"
    ELSE 0

\* "/".join(s.split("/")[:-1])
sem_ultimo_segmento(s) ==
    IF ultima_barra(s) = 0 THEN << >> ELSE SubSeq(s, 1, ultima_barra(s) - 1)

\* s.rsplit("/", 1)[0]
rsplit_cabeca(s) ==
    IF ultima_barra(s) = 0 THEN s ELSE SubSeq(s, 1, ultima_barra(s) - 1)

\* s.split("/")[0]
primeiro_segmento(s) ==
    IF primeira_barra(s) = 0 THEN s ELSE SubSeq(s, 1, primeira_barra(s) - 1)

\* f"{a}/{b}"
junta(a, b) == a \o <<"/">> \o b

RECURSIVE normalizar_particao(_)
normalizar_particao(particao) ==
    IF endswith_barra(particao)
    THEN normalizar_particao(SubSeq(particao, 1, Len(particao) - 1))
    ELSE particao

\* covers(a, b) of the data model: b equals a or starts with a + "/"
cobre(a, b) == b = a \/ startswith(b, a \o <<"/">>)

\* up to k elements of S, as a list
RECURSIVE Bloco(_, _)
Bloco(S, k) ==
    IF k = 0 \/ S = {} THEN << >>
    ELSE LET x == CHOOSE y \in S : TRUE IN <<x>> \o Bloco(S \ {x}, k - 1)

\* the elements of S as a list, built block by block
RECURSIVE SetToSeq(_)
SetToSeq(S) ==
    IF S = {} THEN << >>
    ELSE Bloco(S, 32) \o SetToSeq(S \ {Bloco(S, 32)[i] : i \in 1..Len(Bloco(S, 32))})

RECURSIVE concat(_)
concat(ss) == IF ss = << >> THEN << >> ELSE Head(ss) \o concat(Tail(ss))

Range(s) == {s[i] : i \in 1..Len(s)}

-----------------------------------------------------------------------------
(* Partition lister and filter *)

extrair_particoes(keys) ==
    {normalizar_particao(sem_ultimo_segmento(k)) : k \in keys}

pertence_recarregadas(p, recarregadas_norm) ==
    \E rec \in recarregadas_norm :
        normalizar_particao(p) = rec \/ startswith(normalizar_particao(p), rec \o <<"/">>)

filtrar_particoes_existentes(particoes_existentes, particoes_recarregadas) ==
    LET recarregadas_norm == {normalizar_particao(r) : r \in particoes_recarregadas}
    IN  {p \in particoes_existentes : pertence_recarregadas(p, recarregadas_norm)}

-----------------------------------------------------------------------------
(* Reconciliation planner *)

PlanoVazio == [n \in {} |-> {}]

existentes_sob(particoes_existentes, prefixo) ==
    {normalizar_particao(p) : p \in {q \in particoes_existentes :
                                       startswith(normalizar_particao(q), prefixo)}}

id_empresas(recarregadas_norm) ==
    {primeiro_segmento(normalizar_particao(r)) :
        r \in {q \in recarregadas_norm : contem(q, "idEmpresa=")}}

plano_de_toda_empresa_existente(particoes_existentes, recarregadas_norm) ==
    [n \in {"idEmpresa"} |->
        {primeiro_segmento(normalizar_particao(p)) : p \in particoes_existentes}]

\* tenant-only mode, both backends
plano_somente_empresa(particoes_existentes, recarregadas_norm) ==
    [n \in {"idEmpresa"} |->
        {e \in id_empresas(recarregadas_norm) :
            \E p \in particoes_existentes : startswith(normalizar_particao(p), e)}]

promove_nivel_sem_comparar(filhos_existentes, filhos_recarregados) ==
    filhos_existentes # {}

\* the parent is promoted when its existing children are exactly the reloaded ones
promove_nivel(filhos_existentes, filhos_recarregados) ==
    filhos_existentes # {} /\ filhos_existentes = filhos_recarregados

promove_empresa_sem_cobertura(particoes_empresa, particoes_excluidas) ==
    particoes_empresa # {}

promove_empresa_s3(particoes_empresa, particoes_excluidas) ==
    particoes_empresa # {} /\ particoes_empresa \subseteq particoes_excluidas

promove_empresa_azure(particoes_empresa, particoes_excluidas) ==
    particoes_empresa # {} /\ particoes_empresa \subseteq particoes_excluidas

tem_data_sempre(recarregadas_norm) == TRUE

tem_data_s3(recarregadas_norm) ==
    \E r \in recarregadas_norm : \E token \in {"Ano=", "Mes=", "Dia="} : contem(r, token)

tem_data_azure(recarregadas_norm) ==
    \E r \in recarregadas_norm : \E token \in {"Ano=", "Mes="} : contem(r, token)

definir_particoes_para_exclusao_s3(particoes_existentes, particoes_recarregadas) ==
    LET rn == {normalizar_particao(r) : r \in particoes_recarregadas}
        dia == {r \in rn : \A token \in {"Ano=", "Mes=", "Dia="} : contem(r, token)}
        mes == {m \in {rsplit_cabeca(r) : r \in dia} :
                  promove_nivel(existentes_sob(particoes_existentes, m),
                                {r \in dia : rsplit_cabeca(r) = m})}
        ano == {a \in {primeiro_segmento(m) : m \in mes} :
                  promove_nivel(existentes_sob(particoes_existentes, a),
                                {m \in mes : primeiro_segmento(m) = a})}
        excluidas == dia \cup mes \cup ano
        emp == {e \in id_empresas(rn) :
                  promove_empresa_s3(existentes_sob(particoes_existentes, e), excluidas)}
    IN  IF particoes_existentes = {} THEN PlanoVazio
        ELSE IF ~tem_data_s3(rn) THEN plano_somente_empresa(particoes_existentes, rn)
        ELSE [n \in {"Dia", "Mes", "Ano", "idEmpresa"} |->
                CASE n = "Dia" -> dia
                  [] n = "Mes" -> mes
                  [] n = "Ano" -> ano
                  [] n = "idEmpresa" -> emp]

definir_particoes_para_exclusao_azure(particoes_existentes, particoes_recarregadas) ==
    LET rn == {normalizar_particao(r) : r \in particoes_recarregadas}
        mes == {r \in rn : \A token \in {"Ano=", "Mes="} : contem(r, token)}
        ano == {a \in {primeiro_segmento(m) : m \in mes} :
                  promove_nivel(existentes_sob(particoes_existentes, a),
                                {m \in mes : primeiro_segmento(m) = a})}
        excluidas == mes \cup ano
        emp == {e \in id_empresas(rn) :
                  promove_empresa_azure(existentes_sob(particoes_existentes, e), excluidas)}
    IN  IF particoes_existentes = {} THEN PlanoVazio
        ELSE IF ~tem_data_azure(rn) THEN plano_somente_empresa(particoes_existentes, rn)
        ELSE [n \in {"Mes", "Ano", "idEmpresa"} |->
                CASE n = "Mes" -> mes
                  [] n = "Ano" -> ano
                  [] n = "idEmpresa" -> emp]

definir_particoes_para_exclusao(b, particoes_existentes, particoes_recarregadas) ==
    IF b = "s3"
    THEN definir_particoes_para_exclusao_s3(particoes_existentes, particoes_recarregadas)
    ELSE definir_particoes_para_exclusao_azure(particoes_existentes, particoes_recarregadas)

\* level names in the insertion order of the plan dict
ordem_niveis(b, plano) ==
    SelectSeq(IF b = "s3" THEN <<"Dia", "Mes", "Ano", "idEmpresa">>
                          ELSE <<"Mes", "Ano", "idEmpresa">>,
              LAMBDA n : n \in DOMAIN plano)

nivel(plano, n) == IF n \in DOMAIN plano THEN plano[n] ELSE {}

particoes_do_plano(plano) == UNION {plano[n] : n \in DOMAIN plano}

-----------------------------------------------------------------------------
(* Inputs: names, partition keys, local trees and remote contents *)

portal == <<"portal">>
nome_consulta == <<"Vendas">>
temp_dir == <<"temporario", "/", "Vendas">>

\* caminho_destino = f"{portal}/{nome_consulta}"
caminho_destino == junta(portal, nome_consulta)

\* prefix of a sibling dataset whose name starts with the same characters
destino_vizinho == junta(portal, <<"Vendas", "Itens">>)

E1 == <<"idEmpresa=", "1">>
E10 == <<"idEmpresa=", "1", "0">>
A23 == <<"Ano=", "2023">>
A24 == <<"Ano=", "2024">>
M01 == <<"Mes=", "01">>
M02 == <<"Mes=", "02">>
M12 == <<"Mes=", "12">>
D05 == <<"Dia=", "05">>
D06 == <<"Dia=", "06">>

chave3(e, a, m) == junta(junta(e, a), m)
chave4(e, a, m, d) == junta(chave3(e, a, m), d)

\* partition keys of the data model: tenant, tenant/year, tenant/year/month,
\* tenant/year/month/day
ChavesParticao ==
    { E1, E10, junta(E1, A24),
      chave3(E1, A24, M01), chave3(E1, A24, M02), chave3(E1, A23, M12),
      chave3(E10, A24, M01),
      chave4(E1, A24, M01, D05), chave4(E1, A24, M01, D06) }

novo == <<"a.parquet">>
velho == <<"old.parquet">>

\* local trees written by processar_dados: partition_cols is ["idEmpresa"] or
\* ["idEmpresa", "Ano", "Mes"], with the one tenant of the installation
ArvoresLocais ==
    { {},
      { junta(E1, novo) },
      { junta(chave3(E1, A24, M01), novo) },
      { junta(chave3(E1, A24, M01), novo), junta(chave3(E1, A24, M02), novo) } }

ObjetosRemotos ==
    { junta(caminho_destino, junta(chave3(E1, A24, M01), novo)),
      junta(caminho_destino, junta(chave3(E1, A24, M01), velho)),
      junta(caminho_destino, junta(chave3(E1, A24, M02), velho)),
      junta(caminho_destino, junta(chave3(E1, A23, M12), velho)),
      junta(caminho_destino, junta(chave3(E10, A24, M01), velho)),
      junta(caminho_destino, junta(chave4(E1, A24, M01, D06), velho)),
      junta(caminho_destino, junta(E1, velho)),
      junta(destino_vizinho, junta(chave3(E1, A24, M01), velho)) }

MaxRemoto == 2
MaxRemotoAmbos == 1
MaxExistentes == 3
MaxRecarga == 3
Workers == 2
MaxParcial == 3
MaxLotes == 1
MaxExcedente == 1
MaxConsultas == 8
MaxArquivos == 2
MaxSemPasta == 1

\* keys of a long delete list
chave_lote(i) == <<"obj", ToString(i)>>

\* lengths of delete lists around the multiples of the chunk size c
TamanhosLista(c) == {0, 1} \cup {k * c + d : k \in 1..MaxLotes, d \in {-1, 0, 1}}

Ate(S, n) == {X \in SUBSET S : Cardinality(X) <= n}

ChavesAzure == {"account_name", "account_key", "container_name"}
ChavesS3 == {"access_key", "secret_key", "region", "bucket"}

Configs(b) ==
    IF b = "azure"
    THEN {ChavesAzure, ChavesAzure \ {"container_name"}, ChavesAzure \ {"account_key"}}
    ELSE {ChavesS3, ChavesS3 \ {"bucket"}, ChavesS3 \ {"access_key"},
          ChavesS3 \ {"access_key", "secret_key"}}

ConfigCompleta(b) == IF b = "azure" THEN ChavesAzure ELSE ChavesS3

alvo(b) == destino_tipo = b \/ destino_tipo = "ambos"

-----------------------------------------------------------------------------
(* Local walk: the reload list of a sync *)

\* directories below temp_dir that os.walk visits (every ancestor of a file)
subdiretorios(arquivos) ==
    UNION {{SubSeq(f, 1, i - 1) : i \in {j \in 1..Len(f) : f[j] = "/"}} : f \in arquivos}

\* os.path.relpath(root, temp_dir) for every root with "idEmpresa=" in it
particoes_locais_s3(arquivos) ==
    {d \in subdiretorios(arquivos) : contem(junta(temp_dir, d), "idEmpresa=")}

isdir_base_local(arquivos) ==
    \E d \in subdiretorios(arquivos) : d = caminho_destino

particoes_locais_azure(arquivos) ==
    IF isdir_base_local(arquivos)
    THEN {IF d = caminho_destino THEN <<".">>
          ELSE SubSeq(d, Len(caminho_destino) + 2, Len(d)) :
             d \in {x \in subdiretorios(arquivos) :
                      /\ cobre(caminho_destino, x)
                      /\ contem(junta(temp_dir, x), "idEmpresa=")}}
         \cup (IF contem(nome_consulta, "idEmpresa=") THEN {nome_consulta} ELSE {})
    ELSE {d \in subdiretorios(arquivos) : contem(junta(temp_dir, d), "idEmpresa=")}

particoes_locais(b, arquivos) ==
    IF b = "s3" THEN particoes_locais_s3(arquivos) ELSE particoes_locais_azure(arquivos)

\* s.replace(old, new) for a separator: a token never holds more than one character
\* of the separators, so the replacement is token by token
replace(s, old, new) == [i \in 1..Len(s) |-> IF s[i] = old THEN new ELSE s[i]]

relative_path_sem_barra_invertida(f) == replace(f, "\\", "/")

\* relative_path = os.path.relpath(file_path, temp_dir).replace(os.sep, "/"); f is
\* the path relative to temp_dir as the machine writes it
relative_path(f) == replace(f, os_sep, "/")

destino_path_relativo(f) == relative_path(f)

\* destino_path = f"{caminho_destino}/{relative_path}"
destino_path(f) == junta(caminho_destino, relative_path(f))

-----------------------------------------------------------------------------
(* Clean phase: listing, existing partitions, plan, list of keys to delete *)

MaxKeysPagina == 1000

\* chunk sizes of the batch executors
S3_LOTE == 1000
AZURE_LOTE == 256

\* a month partition with more objects than one Azure delete chunk holds
ObjetosDoisLotes ==
    {junta(caminho_destino, junta(chave3(E1, A24, M01), <<ToString(i)>>)) :
        i \in 1..(AZURE_LOTE + MaxExcedente)}

\* a tenant-only dataset with more objects than one listing page holds
ObjetosVolumosos ==
    {junta(caminho_destino, junta(E1, <<ToString(i)>>)) : i \in 1..(MaxKeysPagina + MaxExcedente)}

RECURSIVE SemAlguns(_, _)
SemAlguns(S, k) ==
    IF k = 0 \/ S = {} THEN S ELSE SemAlguns(S \ {CHOOSE y \in S : TRUE}, k - 1)

\* n of the elements of S (all of them when S has no more than n)
Primeiros(S, n) ==
    IF Cardinality(S) <= n THEN S ELSE SemAlguns(S, Cardinality(S) - n)

\* one list_objects_v2 response: a page of at most MaxKeysPagina of the keys not yet
\* returned
pagina(restantes) == Primeiros(restantes, MaxKeysPagina)

listar_uma_pagina(restantes) == pagina(restantes)

\* the loop of listar_objetos_s3: while the response is truncated, the next page is
\* requested with the continuation token (list_blobs of obter_blobs_azure_sync
\* iterates the pages itself)
RECURSIVE listar_paginas(_)
listar_paginas(restantes) ==
    IF Cardinality(restantes) <= MaxKeysPagina THEN pagina(restantes)
    ELSE pagina(restantes) \cup listar_paginas(restantes \ pagina(restantes))

\* listar_objetos_s3 / obter_blobs_azure_sync
listar(objetos, prefixo) == listar_paginas({k \in objetos : startswith(k, prefixo)})

\* one list_objects_v2 call (s3) returns one page; list_blobs (azure) iterates all pages
listar_prefixo(b, objetos, prefixo) ==
    IF b = "s3" /\ Cardinality(listar(objetos, prefixo)) > MaxKeysPagina
    THEN Primeiros(listar(objetos, prefixo), MaxKeysPagina)
    ELSE listar(objetos, prefixo)

sem_prefixo_remoto(p) ==
    IF startswith(p, normalizar_particao(caminho_destino) \o <<"/">>)
    THEN normalizar_particao(SubSeq(p, Len(normalizar_particao(caminho_destino)) + 2, Len(p)))
    ELSE normalizar_particao(p)

particoes_existentes_remotas(objetos, recarregadas) ==
    LET extraidas == extrair_particoes(listar(objetos, caminho_destino))
        com_empresa == {normalizar_particao(p) :
                          p \in {q \in extraidas : contem(q, "idEmpresa=")}}
        relativas == {sem_prefixo_remoto(p) : p \in com_empresa}
    IN  filtrar_particoes_existentes(relativas,
                                     {normalizar_particao(r) : r \in recarregadas})

prefixo_so_do_destino(particao) == caminho_destino

\* prefixo_completo = f"{caminho_destino}/{particao}".rstrip("/") + "/"
prefixo_completo(particao) ==
    normalizar_particao(junta(caminho_destino, particao)) \o <<"/">>

chaves_da_particao(b, objetos, particao) ==
    SetToSeq({k \in listar_prefixo(b, objetos, prefixo_completo(particao)) :
                ~endswith_barra(k)})

chaves_do_nivel(b, objetos, parts) ==
    concat([i \in 1..Cardinality(parts) |->
               chaves_da_particao(b, objetos, SetToSeq(parts)[i])])

chaves_do_plano(b, objetos, plano) ==
    concat([i \in 1..Len(ordem_niveis(b, plano)) |->
               chaves_do_nivel(b, objetos, plano[ordem_niveis(b, plano)[i]])])

tamanho_lote(b) == IF b = "s3" THEN S3_LOTE ELSE AZURE_LOTE

chunk_list_sem_resto(lst, chunk_size) ==
    [i \in 1..(Len(lst) \div chunk_size) |->
        SubSeq(lst, (i - 1) * chunk_size + 1, i * chunk_size)]

chunk_list(lst, chunk_size) ==
    [i \in 1..((Len(lst) + chunk_size - 1) \div chunk_size) |->
        SubSeq(lst, (i - 1) * chunk_size + 1,
               IF i * chunk_size < Len(lst) THEN i * chunk_size ELSE Len(lst))]

\* the futures submitted by the batch executor: one per chunk
lotes_do_executor(b, chaves) ==
    [i \in DOMAIN chunk_list(chaves, tamanho_lote(b)) |->
        [chaves |-> chunk_list(chaves, tamanho_lote(b))[i], estado |-> "pendente",
         chamadas |-> 0]]

\* what limpar_prefixo_no_s3 / limpar_prefixo_no_azure computes up to the call of
\* the batch executor; lista_ok, prefixo_ok: whether the listings succeed
limpar_prefixo(b, objetos, recarregadas, lista_ok, prefixo_ok) ==
    LET pe == particoes_existentes_remotas(objetos, recarregadas)
        plano == definir_particoes_para_exclusao(b, pe, recarregadas)
        chaves == chaves_do_plano(b, objetos, plano)
        nada == [existentes |-> {}, exclusao |-> PlanoVazio, object_keys |-> << >>,
                 falha |-> "nenhuma", executa |-> FALSE]
    IN  IF recarregadas = {} THEN nada
        ELSE IF ~lista_ok THEN [nada EXCEPT !.falha = "listagem"]
        ELSE IF pe = {} THEN nada
        ELSE IF plano = PlanoVazio THEN [nada EXCEPT !.existentes = pe]
        ELSE IF particoes_do_plano(plano) # {} /\ ~prefixo_ok
             THEN [nada EXCEPT !.existentes = pe, !.exclusao = plano,
                               !.falha = "listagem_prefixo"]
        ELSE [existentes |-> pe, exclusao |-> plano, object_keys |-> chaves,
              falha |-> "nenhuma", executa |-> chaves # << >>]

-----------------------------------------------------------------------------
(* Pipeline of one backend *)

entradas == <<entrada, destino_tipo, dry_run, local, cfg, inicial, workers, max_concurrency,
              os_sep>>
principal == <<consultas, pastas_resultados, consultas_status, retornos, pc_main,
               atualizacao>>
listagem == <<prefix, listados>>
agente == <<sistema_executando, status_sistema, processo_sistema, vivos, pedidos, monitores>>
repeticao == <<respostas, tentativa, pc_consulta, retorno_consulta>>
alheios == <<agente, repeticao>>
coordenador == <<coletados, success_azure, success_s3, sucesso>>
historico == <<execucao, primeira>>
contexto == <<principal, listagem, alheios, entradas, historico>>

ativos == {x \in Backends : pc[x] \notin {"ocioso", "submetido", "planejar", "executar", "fim"}}

\* validar_config_* and the bucket / container lookup of realizar_upload_*.
\* validar_config_s3 tests no key: it hands s3_config.get("access_key") and
\* s3_config.get("secret_key") to boto3.client, which rejects one of the pair given
\* without the other and, given neither, builds a client on the credentials of the
\* environment
config_invalida(b, chaves) ==
    IF b = "azure"
    THEN ~({"account_name", "account_key", "container_name"} \subseteq chaves)
    ELSE \/ "bucket" \notin chaves
         \/ ("access_key" \in chaves) # ("secret_key" \in chaves)

\* the lookups at the start of realizar_upload_*_async
upload_config_invalida(b, chaves) ==
    IF b = "azure"
    THEN ~({"account_name", "account_key", "container_name"} \subseteq chaves)
    ELSE ~({"bucket", "access_key", "secret_key"} \subseteq chaves)

apos_falha_prossegue == "upload"

\* an exception leaves the pipeline: nothing after the raising step runs
apos_falha == IF entrada \in {"limpar_prefixo", "executar_exclusao"} THEN "fim" ELSE "retorno"

apos_limpeza_retorna == IF entrada \in {"limpar_prefixo", "executar_exclusao"} THEN "fim" ELSE "retorno"

apos_limpeza == IF entrada \in {"limpar_prefixo", "executar_exclusao"} THEN "fim" ELSE "upload"

Validar(b) ==
    /\ pc[b] = "submetido"
    /\ entrada = "enviar_resultados" => Cardinality(ativos) < workers
    /\ IF config_invalida(b, cfg[b])
       THEN /\ falha' = [falha EXCEPT ![b] = "config"]
            /\ pc' = [pc EXCEPT ![b] = "retorno"]
            /\ UNCHANGED particoes
       ELSE /\ particoes' = [particoes EXCEPT ![b] =
                               particoes_locais(b, {relative_path(f) : f \in local})]
            /\ pc' = [pc EXCEPT ![b] = "limpar"]
            /\ UNCHANGED falha
    /\ UNCHANGED <<contexto, coordenador, tentativas, store, fresh, deletados, existentes, exclusao,
                   object_keys, lotes, uploads, resultado>>

Limpar(b) ==
    /\ pc[b] = "limpar"
    /\ \E lista_ok \in BOOLEAN, prefixo_ok \in BOOLEAN :
         \E r \in {limpar_prefixo(b, store[b], particoes[b], lista_ok, prefixo_ok)} :
             /\ existentes' = [existentes EXCEPT ![b] = r.existentes]
             /\ exclusao' = [exclusao EXCEPT ![b] = r.exclusao]
             /\ object_keys' = [object_keys EXCEPT ![b] = r.object_keys]
             /\ falha' = [falha EXCEPT ![b] = r.falha]
             /\ IF r.falha # "nenhuma"
                THEN pc' = [pc EXCEPT ![b] = apos_falha] /\ UNCHANGED lotes
                ELSE IF r.executa /\ ~dry_run
                THEN /\ pc' = [pc EXCEPT ![b] = "deletando"]
                     /\ lotes' = [lotes EXCEPT ![b] = lotes_do_executor(b, r.object_keys)]
                ELSE pc' = [pc EXCEPT ![b] = apos_limpeza] /\ UNCHANGED lotes
    /\ UNCHANGED <<contexto, coordenador, tentativas, store, fresh, deletados, particoes, uploads,
                   resultado>>

\* executar_exclusao_objetos_batch / executar_exclusao_blobs_batch called on its own
Executar(b) ==
    /\ pc[b] = "executar"
    /\ IF dry_run \/ object_keys[b] = << >>
       THEN pc' = [pc EXCEPT ![b] = "fim"] /\ UNCHANGED lotes
       ELSE /\ lotes' = [lotes EXCEPT ![b] = lotes_do_executor(b, object_keys[b])]
            /\ pc' = [pc EXCEPT ![b] = "deletando"]
    /\ UNCHANGED <<contexto, coordenador, tentativas, store, fresh, deletados,
                   particoes, existentes, exclusao, object_keys, uploads, falha, resultado>>

lotes_em_execucao(b) == {i \in DOMAIN lotes[b] : lotes[b][i].estado = "executando"}

vaga_sempre(b) == TRUE

\* ThreadPoolExecutor(max_workers=max_workers): a submitted chunk starts when fewer
\* than max_workers chunks are running
vaga_no_executor(b) == Cardinality(lotes_em_execucao(b)) < workers

IniciarLote(b, i) ==
    /\ lotes[b][i].estado = "pendente"
    /\ vaga_no_executor(b)
    /\ lotes' = [lotes EXCEPT ![b][i].estado = "executando", ![b][i].chamadas = @ + 1]
    /\ UNCHANGED <<contexto, coordenador, tentativas, store, fresh, deletados, pc, particoes,
                   existentes, exclusao, object_keys, uploads, falha, resultado>>

\* the parts of a chunk a failed call may have deleted: any part of a small chunk; of
\* a large one nothing, everything, one key, or everything but one key
parciais(S) ==
    IF Cardinality(S) <= MaxParcial THEN SUBSET S
    ELSE {{}, S, {CHOOSE y \in S : TRUE}, S \ {CHOOSE y \in S : TRUE}}

estado_dos_lotes_abortando(b, i, res) ==
    IF res = "ok" THEN [lotes[b] EXCEPT ![i].estado = res]
    ELSE [j \in DOMAIN lotes[b] |->
             IF j = i \/ lotes[b][j].estado = "pendente"
             THEN [lotes[b][j] EXCEPT !.estado = "erro"]
             ELSE lotes[b][j]]

\* the chunks after delete_batch of chunk i has returned: None, or (e, chunk) when the
\* call raised or the S3 response lists per-key errors; the other chunks are untouched
estado_dos_lotes(b, i, res) == [lotes[b] EXCEPT ![i].estado = res]

\* one delete_objects / delete_blobs call: on success every key of the chunk is gone,
\* on failure any part of the chunk may have been deleted
ConcluirLote(b, i) ==
    /\ lotes[b][i].estado = "executando"
    /\ \E res \in {"ok", "erro"} :
       \E D \in parciais(Range(lotes[b][i].chaves) \cap store[b]) :
         /\ res = "ok" => D = Range(lotes[b][i].chaves) \cap store[b]
         /\ store' = [store EXCEPT ![b] = @ \ D]
         /\ deletados' = [deletados EXCEPT ![b] = @ \cup D]
         /\ fresh' = [fresh EXCEPT ![b] = @ \ D]
         /\ lotes' = [lotes EXCEPT ![b] = estado_dos_lotes(b, i, res)]
    /\ UNCHANGED <<contexto, coordenador, tentativas, pc, particoes, existentes, exclusao,
                   object_keys, uploads, falha, resultado>>

lotes_sem_espera(b) == TRUE

\* the with-block of the executor returns when every submitted chunk has finished
lotes_concluidos(b) ==
    \A i \in DOMAIN lotes[b] : lotes[b][i].estado \in {"ok", "erro"}

erro_de_lote_ignorado(b) == FALSE

houve_erro_de_lote(b) == \E i \in DOMAIN lotes[b] : lotes[b][i].estado = "erro"

FimDelecao(b) ==
    /\ pc[b] = "deletando"
    /\ lotes_concluidos(b)
    /\ IF houve_erro_de_lote(b)
       THEN /\ falha' = [falha EXCEPT ![b] = "delete"]
            /\ pc' = [pc EXCEPT ![b] = apos_falha]
       ELSE /\ pc' = [pc EXCEPT ![b] = apos_limpeza]
            /\ UNCHANGED falha
    /\ UNCHANGED <<contexto, coordenador, tentativas, store, fresh, deletados, particoes, existentes,
                   exclusao, object_keys, lotes, uploads, resultado>>

MAX_CONCURRENCY == 1000

uploads_em_execucao(b) == {f \in DOMAIN uploads[b] : uploads[b][f] = "executando"}

\* realizar_upload_*_async up to asyncio.gather: one task per local file
PrepararUpload(b) ==
    /\ pc[b] = "upload"
    /\ IF upload_config_invalida(b, cfg[b])
       THEN /\ falha' = [falha EXCEPT ![b] = "upload_config"]
            /\ pc' = [pc EXCEPT ![b] = "retorno"]
            /\ UNCHANGED <<uploads, tentativas>>
       ELSE /\ uploads' = [uploads EXCEPT ![b] = [f \in local |-> "pendente"]]
            /\ tentativas' = [tentativas EXCEPT ![b] = [f \in local |-> 0]]
            /\ pc' = [pc EXCEPT ![b] = IF local = {} THEN "retorno" ELSE "enviando"]
            /\ UNCHANGED falha
    /\ UNCHANGED <<contexto, coordenador, store, fresh, deletados, particoes, existentes,
                   exclusao, object_keys, lotes, resultado>>

\* upload_file_*_async: the task enters the semaphore
IniciarPut(b, f) ==
    /\ pc[b] = "enviando"
    /\ uploads[b][f] = "pendente"
    /\ Cardinality(uploads_em_execucao(b)) < max_concurrency
    /\ uploads' = [uploads EXCEPT ![b][f] = "executando"]
    /\ tentativas' = [tentativas EXCEPT ![b][f] = @ + 1]
    /\ UNCHANGED <<contexto, coordenador, store, fresh, deletados, pc, particoes,
                   existentes, exclusao, object_keys, lotes, falha, resultado>>

\* put_object / upload_blob(overwrite=True) returns or raises
ConcluirPut(b, f) ==
    /\ pc[b] = "enviando"
    /\ uploads[b][f] = "executando"
    /\ \E ok \in BOOLEAN :
         IF ok
         THEN /\ store' = [store EXCEPT ![b] = @ \cup {destino_path(f)}]
              /\ fresh' = [fresh EXCEPT ![b] = @ \cup {destino_path(f)}]
              /\ uploads' = [uploads EXCEPT ![b][f] = "ok"]
         ELSE /\ uploads' = [uploads EXCEPT ![b][f] = "erro"]
              /\ UNCHANGED <<store, fresh>>
    /\ UNCHANGED <<contexto, coordenador, tentativas, deletados, pc, particoes, existentes, exclusao,
                   object_keys, lotes, falha, resultado>>

uploads_ate_primeira_falha(b) ==
    \/ \E f \in DOMAIN uploads[b] : uploads[b][f] = "erro"
    \/ \A f \in DOMAIN uploads[b] : uploads[b][f] \in {"ok", "erro"}

\* asyncio.gather(*tasks, return_exceptions=True) returns when every task has finished
uploads_concluidos(b) == \A f \in DOMAIN uploads[b] : uploads[b][f] \in {"ok", "erro"}

\* the list of files of os.walk, in task order
arquivos(b) == SetToSeq(DOMAIN uploads[b])

resultado_sem_arquivos_com_erro == [enviados |-> << >>, erros |-> <<"nenhum arquivo">>]

\* the dict returned when the walk of temp_dir finds no file
resultado_sem_arquivos == [enviados |-> << >>, erros |-> << >>]

\* the dict returned by realizar_upload_*_async: the loop over the gathered results
\* appends the destination key of a finished put to "enviados" and the text of a
\* raised exception (here: the file it belongs to) to "erros"
resultado_upload(b) ==
    LET ok == SelectSeq(arquivos(b), LAMBDA f : uploads[b][f] = "ok")
        er == SelectSeq(arquivos(b), LAMBDA f : uploads[b][f] = "erro")
    IN  IF arquivos(b) = << >> THEN resultado_sem_arquivos
        ELSE [enviados |-> [i \in 1..Len(ok) |-> destino_path(ok[i])],
              erros |-> [i \in 1..Len(er) |-> er[i]]]

\* resultado_upload["erros"]
erros(b) == Range(resultado_upload(b).erros)

enviar_para_ignora_erros(levantou, arquivos_com_erro) ==
    IF levantou THEN "False" ELSE "True"

\* enviar_para_azure / enviar_para_s3: the value returned
enviar_para(levantou, arquivos_com_erro) ==
    IF levantou THEN "False"
    ELSE IF arquivos_com_erro # {} THEN "False"
    ELSE "True"

\* the backend pipeline returns: to the coordinator through enviar_para_*, or to the
\* direct caller of realizar_upload_* (the result dict, or the exception)
Retornar(b) ==
    /\ \/ pc[b] = "retorno"
       \/ pc[b] = "enviando" /\ uploads_concluidos(b)
    /\ resultado' = [resultado EXCEPT ![b] =
          IF entrada = "enviar_resultados"
          THEN enviar_para(falha[b] # "nenhuma", erros(b))
          ELSE IF falha[b] # "nenhuma" THEN "Raise" ELSE "Dict"]
    /\ pc' = [pc EXCEPT ![b] = "fim"]
    /\ UNCHANGED <<contexto, coordenador, tentativas, store, fresh, deletados, particoes, existentes,
                   exclusao, object_keys, lotes, uploads, falha>>

-----------------------------------------------------------------------------
(* Coordinator: enviar_resultados *)

\* the loop over as_completed(futures) handles the future of backend b
Coletar(b) ==
    /\ entrada = "enviar_resultados"
    /\ pc[b] = "fim"
    /\ b \notin Range(coletados)
    /\ coletados' = Append(coletados, b)
    /\ success_azure' = IF destino_tipo \in {"azure", "ambos"} THEN resultado[b]
                        ELSE success_azure
    /\ success_s3' = IF destino_tipo \in {"s3", "ambos"} THEN resultado[b]
                     ELSE success_s3
    /\ UNCHANGED <<contexto, sucesso, tentativas, store, fresh, deletados, pc, particoes, existentes,
                   exclusao, object_keys, lotes, uploads, falha, resultado>>

avaliar(tipo, azure, s3) ==
    IF tipo = "azure" THEN azure
    ELSE IF tipo = "s3" THEN s3
    ELSE IF azure = "True" /\ s3 = "True" THEN "True" ELSE "False"

Avaliar ==
    /\ entrada = "enviar_resultados"
    /\ sucesso = "None"
    /\ \A b \in Backends : alvo(b) => b \in Range(coletados)
    /\ sucesso' = avaliar(destino_tipo, success_azure, success_s3)
    /\ UNCHANGED <<contexto, coletados, tentativas, success_azure, success_s3, store, fresh,
                   deletados, pc, particoes, existentes, exclusao, object_keys, lotes,
                   uploads, falha, resultado>>

\* realizar_upload_* is called again on the same temp_dir, after the first call has
\* returned or raised
Reiniciar(b) ==
    /\ entrada = "realizar_upload"
    /\ execucao = 1
    /\ pc[b] = "fim"
    /\ execucao' = 2
    /\ primeira' = [exclusao |-> exclusao[b],
                    enviados |-> Range(resultado_upload(b).enviados),
                    store |-> store[b],
                    completa |-> (falha[b] = "nenhuma" /\ erros(b) = {})]
    /\ inicial' = [inicial EXCEPT ![b] = store[b]]
    /\ pc' = [pc EXCEPT ![b] = "submetido"]
    /\ fresh' = [fresh EXCEPT ![b] = {}]
    /\ deletados' = [deletados EXCEPT ![b] = {}]
    /\ particoes' = [particoes EXCEPT ![b] = {}]
    /\ existentes' = [existentes EXCEPT ![b] = {}]
    /\ exclusao' = [exclusao EXCEPT ![b] = PlanoVazio]
    /\ object_keys' = [object_keys EXCEPT ![b] = << >>]
    /\ lotes' = [lotes EXCEPT ![b] = << >>]
    /\ uploads' = [uploads EXCEPT ![b] = << >>]
    /\ tentativas' = [tentativas EXCEPT ![b] = << >>]
    /\ falha' = [falha EXCEPT ![b] = "nenhuma"]
    /\ resultado' = [resultado EXCEPT ![b] = "None"]
    /\ UNCHANGED <<principal, listagem, alheios, entrada, destino_tipo, dry_run, local, cfg, workers,
                   max_concurrency, os_sep, store, coordenador>>

\* the planner called on its own
Planejar(b) ==
    /\ pc[b] = "planejar"
    /\ exclusao' = [exclusao EXCEPT ![b] =
          definir_particoes_para_exclusao(b, existentes[b], particoes[b])]
    /\ pc' = [pc EXCEPT ![b] = "fim"]
    /\ UNCHANGED <<contexto, coordenador, tentativas, store, fresh, deletados, particoes, existentes,
                   object_keys, lotes, uploads, falha, resultado>>

\* the remote lister called on its own: it returns the keys, or the listing raises
Listar(b) ==
    /\ pc[b] = "listar"
    /\ \E ok \in BOOLEAN :
         IF ok
         THEN /\ listados' = [listados EXCEPT ![b] = listar(store[b], prefix)]
              /\ UNCHANGED falha
         ELSE /\ falha' = [falha EXCEPT ![b] = "listagem"]
              /\ UNCHANGED listados
    /\ pc' = [pc EXCEPT ![b] = "fim"]
    /\ UNCHANGED <<principal, prefix, alheios, entradas, historico, coordenador, tentativas,
                   store,
                   fresh, deletados, particoes, existentes, exclusao, object_keys, lotes,
                   uploads, resultado>>

-----------------------------------------------------------------------------
(* Remote calls that never return *)

\* a delete_objects / delete_blobs call that has been issued never returns: the
\* worker thread of its chunk stays in the call
SuspenderLote(b, i) ==
    /\ lotes[b][i].estado = "executando"
    /\ lotes' = [lotes EXCEPT ![b][i].estado = "suspenso"]
    /\ UNCHANGED <<contexto, coordenador, tentativas, store, fresh, deletados, pc, particoes,
                   existentes, exclusao, object_keys, uploads, falha, resultado>>

\* a put_object / upload_blob call that has been issued never returns
SuspenderPut(b, f) ==
    /\ pc[b] = "enviando"
    /\ uploads[b][f] = "executando"
    /\ uploads' = [uploads EXCEPT ![b][f] = "suspenso"]
    /\ UNCHANGED <<contexto, coordenador, tentativas, store, fresh, deletados, pc, particoes,
                   existentes, exclusao, object_keys, lotes, falha, resultado>>

\* the listing call of the clean phase never returns
SuspenderListagem(b) ==
    /\ pc[b] = "limpar"
    /\ particoes[b] # {}
    /\ pc' = [pc EXCEPT ![b] = "suspenso"]
    /\ UNCHANGED <<contexto, coordenador, tentativas, store, fresh, deletados, particoes,
                   existentes, exclusao, object_keys, lotes, uploads, falha, resultado>>

\* the steps of a sync other than a call hanging
Andamento ==
    \/ \E b \in Backends : Validar(b)
    \/ \E b \in Backends : Limpar(b)
    \/ \E b \in Backends : \E i \in DOMAIN lotes[b] : IniciarLote(b, i)
    \/ \E b \in Backends : \E i \in DOMAIN lotes[b] : ConcluirLote(b, i)
    \/ \E b \in Backends : FimDelecao(b)
    \/ \E b \in Backends : PrepararUpload(b)
    \/ \E b \in Backends : \E f \in DOMAIN uploads[b] : IniciarPut(b, f)
    \/ \E b \in Backends : \E f \in DOMAIN uploads[b] : ConcluirPut(b, f)
    \/ \E b \in Backends : Retornar(b)

-----------------------------------------------------------------------------
(* main.py: the loop over the datasets and the completion marker *)

sync == <<store, fresh, deletados, pc, particoes, existentes, exclusao, object_keys,
          lotes, uploads, tentativas, falha, resultado>>

\* len(consultas_status) != 8
CONSULTAS_ESPERADAS == 8

\* what a call of enviar_resultados does: it returns its verdict, or raises
RetornosEnviar == {"True", "False", "Raise"}

status_registrado_otimista(r) == IF r = "False" THEN "False" ELSE "True"

\* the status the loop of main records for a dataset: the value returned, False
\* when the call raised
status_registrado(r) == IF r = "Raise" THEN "False" ELSE r

\* falhas = len(consultas_status) - sucessos
falhas(status) == Len(status) - Cardinality({i \in DOMAIN status : status[i] = "True"})

\* the test at the head of enviar_tabela_atualizacao
tabela_nao_enviada(status) ==
    \/ status = << >>
    \/ \E i \in DOMAIN status : status[i] # "True"
    \/ Len(status) # CONSULTAS_ESPERADAS

\* the entries of a sequence that are not in S, in their order
RECURSIVE sem_as_de(_, _)
sem_as_de(q, S) ==
    IF q = << >> THEN << >>
    ELSE IF Head(q) \in S THEN sem_as_de(Tail(q), S)
    ELSE <<Head(q)>> \o sem_as_de(Tail(q), S)

\* executar_consultas and the filter of main after it: a query whose extraction
\* raised or gave no rows has no entry in the result; main returns when none has
ExecutarConsultas ==
    /\ pc_main = "consultas"
    /\ \E sem_pasta \in Ate(Range(consultas), MaxSemPasta) :
         /\ pastas_resultados' = sem_as_de(consultas, sem_pasta)
         /\ pc_main' = IF sem_as_de(consultas, sem_pasta) = << >> THEN "fim" ELSE "envio"
    /\ UNCHANGED <<alheios, consultas, consultas_status, retornos, atualizacao, listagem, entradas,
                   historico, coordenador, sync>>

\* one iteration of the loop over pastas_resultados
EnviarConsulta ==
    /\ pc_main = "envio"
    /\ Len(consultas_status) < Len(pastas_resultados)
    /\ \E r \in RetornosEnviar :
         /\ retornos' = Append(retornos, r)
         /\ consultas_status' = Append(consultas_status, status_registrado(r))
    /\ UNCHANGED <<alheios, consultas, pastas_resultados, pc_main, atualizacao, listagem, entradas,
                   historico, coordenador, sync>>

\* the summary after the loop: main returns when a dataset failed
Resumir ==
    /\ pc_main = "envio"
    /\ Len(consultas_status) = Len(pastas_resultados)
    /\ pc_main' = IF falhas(consultas_status) > 0 THEN "fim" ELSE "atualizacao"
    /\ UNCHANGED <<alheios, consultas, pastas_resultados, consultas_status, retornos, atualizacao,
                   listagem, entradas, historico, coordenador, sync>>

\* enviar_tabela_atualizacao: the marker is written and sent with enviar_resultados,
\* unless the test at its head returns or writing the table raises
EnviarTabelaAtualizacao ==
    /\ pc_main = "atualizacao"
    /\ IF tabela_nao_enviada(consultas_status)
       THEN UNCHANGED atualizacao
       ELSE \E r \in RetornosEnviar \cup {"nao"} : atualizacao' = r
    /\ pc_main' = "fim"
    /\ UNCHANGED <<alheios, consultas, pastas_resultados, consultas_status, retornos, listagem,
                   entradas, historico, coordenador, sync>>

-----------------------------------------------------------------------------
(* Specifications *)

\* the parameters as main passes them: workers as configured, max_concurrency at
\* its default
ParametrosPadrao ==
    /\ workers = Workers
    /\ max_concurrency = MAX_CONCURRENCY
    /\ os_sep = "/"

\* the control agent is not running, executar_consulta is not called on its own
SemAlheios ==
    /\ sistema_executando = FALSE
    /\ status_sistema = "parado"
    /\ processo_sistema = 0
    /\ vivos = {}
    /\ pedidos = << >>
    /\ monitores = << >>
    /\ respostas = << >>
    /\ tentativa = 0
    /\ pc_consulta = "ocioso"
    /\ retorno_consulta = "None"

\* the sync is not run by main, the lister is not called on its own
SemChamador ==
    /\ consultas = << >>
    /\ pastas_resultados = << >>
    /\ consultas_status = << >>
    /\ retornos = << >>
    /\ pc_main = "ocioso"
    /\ atualizacao = "nao"
    /\ prefix = << >>
    /\ listados = [b \in Backends |-> {}]

InitComum ==
    /\ fresh = [b \in Backends |-> {}]
    /\ deletados = [b \in Backends |-> {}]
    /\ exclusao = [b \in Backends |-> PlanoVazio]
    /\ lotes = [b \in Backends |-> << >>]
    /\ uploads = [b \in Backends |-> << >>]
    /\ tentativas = [b \in Backends |-> << >>]
    /\ execucao = 1
    /\ primeira = << >>
    /\ falha = [b \in Backends |-> "nenhuma"]
    /\ resultado = [b \in Backends |-> "None"]
    /\ coletados = << >>
    /\ success_azure = "None"
    /\ success_s3 = "None"
    /\ sucesso = "None"

\* one backend: enviar_resultados with destino_tipo "azure" or "s3", or a direct call
\* of realizar_upload_* (the only caller that can set dry_run)
Init ==
    /\ InitComum
    /\ SemAlheios
    /\ ParametrosPadrao
    /\ SemChamador
    /\ object_keys = [b \in Backends |-> << >>]
    /\ entrada \in {"enviar_resultados", "realizar_upload"}
    /\ destino_tipo \in {"azure", "s3"}
    /\ dry_run \in (IF entrada = "realizar_upload" THEN BOOLEAN ELSE {FALSE})
    /\ local \in ArvoresLocais
    /\ \E c \in Configs(destino_tipo) :
         cfg = [b \in Backends |-> IF alvo(b) THEN c ELSE {}]
    /\ \E r \in Ate(ObjetosRemotos, MaxRemoto) :
         inicial = [b \in Backends |-> IF alvo(b) THEN r ELSE {}]
    /\ store = inicial
    /\ pc = [b \in Backends |-> IF alvo(b) THEN "submetido" ELSE "ocioso"]
    /\ particoes = [b \in Backends |-> {}]
    /\ existentes = [b \in Backends |-> {}]

Next ==
    \/ \E b \in Backends : Validar(b)
    \/ \E b \in Backends : Limpar(b)
    \/ \E b \in Backends : \E i \in DOMAIN lotes[b] : IniciarLote(b, i)
    \/ \E b \in Backends : \E i \in DOMAIN lotes[b] : ConcluirLote(b, i)
    \/ \E b \in Backends : FimDelecao(b)
    \/ \E b \in Backends : PrepararUpload(b)
    \/ \E b \in Backends : \E f \in DOMAIN uploads[b] : IniciarPut(b, f)
    \/ \E b \in Backends : \E f \in DOMAIN uploads[b] : ConcluirPut(b, f)
    \/ \E b \in Backends : Retornar(b)
    \/ \E b \in Backends : Coletar(b)
    \/ Avaliar

Spec == Init /\ [][Next]_vars

\* both backends: enviar_resultados with destino_tipo "ambos"
InitAmbos ==
    /\ InitComum
    /\ SemAlheios
    /\ ParametrosPadrao
    /\ SemChamador
    /\ object_keys = [b \in Backends |-> << >>]
    /\ entrada = "enviar_resultados"
    /\ destino_tipo = "ambos"
    /\ dry_run = FALSE
    /\ local \in ArvoresLocais
    /\ cfg = [b \in Backends |-> ConfigCompleta(b)]
    /\ \E r \in Ate(ObjetosRemotos, MaxRemotoAmbos) : inicial = [b \in Backends |-> r]
    /\ store = inicial
    /\ pc = [b \in Backends |-> "submetido"]
    /\ particoes = [b \in Backends |-> {}]
    /\ existentes = [b \in Backends |-> {}]

SpecAmbos == InitAmbos /\ [][Next]_vars

\* the clean phase called with any reload list
InitLimpar ==
    /\ InitComum
    /\ SemAlheios
    /\ ParametrosPadrao
    /\ SemChamador
    /\ object_keys = [b \in Backends |-> << >>]
    /\ entrada = "limpar_prefixo"
    /\ destino_tipo \in {"azure", "s3"}
    /\ dry_run \in BOOLEAN
    /\ local = {}
    /\ cfg = [b \in Backends |-> IF alvo(b) THEN ConfigCompleta(b) ELSE {}]
    /\ \E r \in Ate(ObjetosRemotos, MaxRemoto) :
         inicial = [b \in Backends |-> IF alvo(b) THEN r ELSE {}]
    /\ store = inicial
    /\ pc = [b \in Backends |-> IF alvo(b) THEN "limpar" ELSE "ocioso"]
    /\ \E R \in Ate(ChavesParticao, MaxRecarga) :
         particoes = [b \in Backends |-> IF alvo(b) THEN R ELSE {}]
    /\ existentes = [b \in Backends |-> {}]

NextLimpar ==
    \/ \E b \in Backends : Limpar(b)
    \/ \E b \in Backends : \E i \in DOMAIN lotes[b] : IniciarLote(b, i)
    \/ \E b \in Backends : \E i \in DOMAIN lotes[b] : ConcluirLote(b, i)
    \/ \E b \in Backends : FimDelecao(b)

SpecLimpar == InitLimpar /\ [][NextLimpar]_vars

\* the planner called with any existing set and any reload set
InitPlano ==
    /\ InitComum
    /\ SemAlheios
    /\ ParametrosPadrao
    /\ SemChamador
    /\ object_keys = [b \in Backends |-> << >>]
    /\ entrada = "definir_particoes"
    /\ destino_tipo \in {"azure", "s3"}
    /\ dry_run = FALSE
    /\ local = {}
    /\ cfg = [b \in Backends |-> {}]
    /\ inicial = [b \in Backends |-> {}]
    /\ store = inicial
    /\ pc = [b \in Backends |-> IF alvo(b) THEN "planejar" ELSE "ocioso"]
    /\ \E R \in Ate(ChavesParticao, MaxRecarga) :
         particoes = [b \in Backends |-> IF alvo(b) THEN R ELSE {}]
    /\ \E X \in Ate(ChavesParticao, MaxExistentes) :
         existentes = [b \in Backends |-> IF alvo(b) THEN X ELSE {}]

\* two calls of realizar_upload_* in succession on the same local tree; on S3, whose
\* listing of a plan prefix is one page, also with a store larger than a page
InitDuas ==
    /\ InitComum
    /\ SemAlheios
    /\ ParametrosPadrao
    /\ SemChamador
    /\ object_keys = [b \in Backends |-> << >>]
    /\ entrada = "realizar_upload"
    /\ destino_tipo \in {"azure", "s3"}
    /\ dry_run = FALSE
    /\ local \in ArvoresLocais
    /\ cfg = [b \in Backends |-> IF alvo(b) THEN ConfigCompleta(b) ELSE {}]
    /\ \E r \in Ate(ObjetosRemotos, MaxRemoto)
                 \cup (IF destino_tipo = "s3" THEN {ObjetosVolumosos} ELSE {}) :
         inicial = [b \in Backends |-> IF alvo(b) THEN r ELSE {}]
    /\ store = inicial
    /\ pc = [b \in Backends |-> IF alvo(b) THEN "submetido" ELSE "ocioso"]
    /\ particoes = [b \in Backends |-> {}]
    /\ existentes = [b \in Backends |-> {}]

NextDuas ==
    \/ \E b \in Backends : Validar(b)
    \/ \E b \in Backends : Limpar(b)
    \/ \E b \in Backends : \E i \in DOMAIN lotes[b] : IniciarLote(b, i)
    \/ \E b \in Backends : \E i \in DOMAIN lotes[b] : ConcluirLote(b, i)
    \/ \E b \in Backends : FimDelecao(b)
    \/ \E b \in Backends : PrepararUpload(b)
    \/ \E b \in Backends : \E f \in DOMAIN uploads[b] : IniciarPut(b, f)
    \/ \E b \in Backends : \E f \in DOMAIN uploads[b] : ConcluirPut(b, f)
    \/ \E b \in Backends : Retornar(b)
    \/ \E b \in Backends : Reiniciar(b)

SpecDuas == InitDuas /\ [][NextDuas]_vars

\* the batch executor called with a list of distinct keys, all of them in the store
InitLotes ==
    /\ InitComum
    /\ SemAlheios
    /\ ParametrosPadrao
    /\ SemChamador
    /\ entrada = "executar_exclusao"
    /\ destino_tipo \in {"azure", "s3"}
    /\ dry_run \in BOOLEAN
    /\ local = {}
    /\ cfg = [b \in Backends |-> IF alvo(b) THEN ConfigCompleta(b) ELSE {}]
    /\ \E n \in TamanhosLista(tamanho_lote(destino_tipo)) :
         /\ object_keys = [b \in Backends |->
                             IF alvo(b) THEN [i \in 1..n |-> chave_lote(i)] ELSE << >>]
         /\ inicial = [b \in Backends |->
                         IF alvo(b) THEN {chave_lote(i) : i \in 1..n} ELSE {}]
    /\ store = inicial
    /\ pc = [b \in Backends |-> IF alvo(b) THEN "executar" ELSE "ocioso"]
    /\ particoes = [b \in Backends |-> {}]
    /\ existentes = [b \in Backends |-> {}]

NextLotes ==
    \/ \E b \in Backends : Executar(b)
    \/ \E b \in Backends : \E i \in DOMAIN lotes[b] : IniciarLote(b, i)
    \/ \E b \in Backends : \E i \in DOMAIN lotes[b] : ConcluirLote(b, i)
    \/ \E b \in Backends : FimDelecao(b)

SpecLotes == InitLotes /\ [][NextLotes]_vars

NextPlano == \E b \in Backends : Planejar(b)

SpecPlano == InitPlano /\ [][NextPlano]_vars

\* main with 1..MaxConsultas datasets to send
InitMain ==
    /\ InitComum
    /\ SemAlheios
    /\ ParametrosPadrao
    /\ object_keys = [b \in Backends |-> << >>]
    /\ entrada = "main"
    /\ destino_tipo = "ambos"
    /\ dry_run = FALSE
    /\ local = {}
    /\ cfg = [b \in Backends |-> ConfigCompleta(b)]
    /\ inicial = [b \in Backends |-> {}]
    /\ store = inicial
    /\ pc = [b \in Backends |-> "ocioso"]
    /\ particoes = [b \in Backends |-> {}]
    /\ existentes = [b \in Backends |-> {}]
    /\ prefix = << >>
    /\ listados = [b \in Backends |-> {}]
    /\ \E n \in 1..MaxConsultas : pastas_resultados = [i \in 1..n |-> ToString(i)]
    /\ consultas = pastas_resultados
    /\ consultas_status = << >>
    /\ retornos = << >>
    /\ pc_main = "envio"
    /\ atualizacao = "nao"

NextMain ==
    \/ EnviarConsulta
    \/ Resumir
    \/ EnviarTabelaAtualizacao

SpecMain == InitMain /\ [][NextMain]_vars

\* main from the call of executar_consultas on: up to one query more than the
\* eight expected is configured
InitConsultas ==
    /\ InitComum
    /\ SemAlheios
    /\ ParametrosPadrao
    /\ object_keys = [b \in Backends |-> << >>]
    /\ entrada = "main"
    /\ destino_tipo = "ambos"
    /\ dry_run = FALSE
    /\ local = {}
    /\ cfg = [b \in Backends |-> ConfigCompleta(b)]
    /\ inicial = [b \in Backends |-> {}]
    /\ store = inicial
    /\ pc = [b \in Backends |-> "ocioso"]
    /\ particoes = [b \in Backends |-> {}]
    /\ existentes = [b \in Backends |-> {}]
    /\ prefix = << >>
    /\ listados = [b \in Backends |-> {}]
    /\ \E n \in 1..(CONSULTAS_ESPERADAS + MaxExcedente) :
         consultas = [i \in 1..n |-> ToString(i)]
    /\ pastas_resultados = << >>
    /\ consultas_status = << >>
    /\ retornos = << >>
    /\ pc_main = "consultas"
    /\ atualizacao = "nao"

NextConsultas ==
    \/ ExecutarConsultas
    \/ NextMain

SpecConsultas == InitConsultas /\ [][NextConsultas]_vars

\* one backend, realizar_upload_* called directly, every remote call may hang; the
\* thread pool and the event loop run every task they hold, and a call that is not
\* hanging returns
InitJusta ==
    /\ InitComum
    /\ SemAlheios
    /\ ParametrosPadrao
    /\ SemChamador
    /\ object_keys = [b \in Backends |-> << >>]
    /\ entrada = "realizar_upload"
    /\ destino_tipo \in {"azure", "s3"}
    /\ dry_run = FALSE
    /\ local \in ArvoresLocais
    /\ cfg = [b \in Backends |-> IF alvo(b) THEN ConfigCompleta(b) ELSE {}]
    /\ \E r \in Ate(ObjetosRemotos, MaxRemotoAmbos) :
         inicial = [b \in Backends |-> IF alvo(b) THEN r ELSE {}]
    /\ store = inicial
    /\ pc = [b \in Backends |-> IF alvo(b) THEN "submetido" ELSE "ocioso"]
    /\ particoes = [b \in Backends |-> {}]
    /\ existentes = [b \in Backends |-> {}]

NextJusta ==
    \/ Andamento
    \/ \E b \in Backends : \E i \in DOMAIN lotes[b] : SuspenderLote(b, i)
    \/ \E b \in Backends : \E f \in DOMAIN uploads[b] : SuspenderPut(b, f)
    \/ \E b \in Backends : SuspenderListagem(b)

SpecJusta == InitJusta /\ [][NextJusta]_vars /\ WF_vars(Andamento)

\* one backend, realizar_upload_* called directly with its workers and max_concurrency
\* parameters; the Azure container may hold a partition of two delete chunks
InitConcorrencia ==
    /\ InitComum
    /\ SemAlheios
    /\ SemChamador
    /\ object_keys = [b \in Backends |-> << >>]
    /\ entrada = "realizar_upload"
    /\ destino_tipo \in {"azure", "s3"}
    /\ dry_run = FALSE
    /\ workers \in 1..Workers
    /\ max_concurrency \in {1, 2, MAX_CONCURRENCY}
    /\ os_sep = "/"
    /\ local \in ArvoresLocais
    /\ cfg = [b \in Backends |-> IF alvo(b) THEN ConfigCompleta(b) ELSE {}]
    /\ \E r \in Ate(ObjetosRemotos, MaxRemotoAmbos)
                 \cup (IF destino_tipo = "azure" THEN {ObjetosDoisLotes} ELSE {}) :
         inicial = [b \in Backends |-> IF alvo(b) THEN r ELSE {}]
    /\ store = inicial
    /\ pc = [b \in Backends |-> IF alvo(b) THEN "submetido" ELSE "ocioso"]
    /\ particoes = [b \in Backends |-> {}]
    /\ existentes = [b \in Backends |-> {}]

SpecConcorrencia == InitConcorrencia /\ [][Andamento]_vars

\* prefixes given to the lister
Prefixos ==
    {caminho_destino, prefixo_completo(E1), prefixo_completo(chave3(E1, A24, M01))}

\* the lister called on a store of a few objects, or of more objects than a page
InitListar ==
    /\ InitComum
    /\ SemAlheios
    /\ ParametrosPadrao
    /\ object_keys = [b \in Backends |-> << >>]
    /\ entrada = "listar_objetos"
    /\ destino_tipo \in {"azure", "s3"}
    /\ dry_run = FALSE
    /\ local = {}
    /\ cfg = [b \in Backends |-> IF alvo(b) THEN ConfigCompleta(b) ELSE {}]
    /\ \E r \in Ate(ObjetosRemotos, MaxRemoto)
                 \cup {ObjetosVolumosos \cup X : X \in Ate(ObjetosRemotos, MaxRemotoAmbos)} :
         inicial = [b \in Backends |-> IF alvo(b) THEN r ELSE {}]
    /\ store = inicial
    /\ pc = [b \in Backends |-> IF alvo(b) THEN "listar" ELSE "ocioso"]
    /\ particoes = [b \in Backends |-> {}]
    /\ existentes = [b \in Backends |-> {}]
    /\ prefix \in Prefixos
    /\ listados = [b \in Backends |-> {}]
    /\ consultas = << >>
    /\ pastas_resultados = << >>
    /\ consultas_status = << >>
    /\ retornos = << >>
    /\ pc_main = "ocioso"
    /\ atualizacao = "nao"

NextListar == \E b \in Backends : Listar(b)

SpecListar == InitListar /\ [][NextListar]_vars

\* a relative path written with "/" as the machine with separator sep writes it
no_sistema(f, sep) == replace(f, "/", sep)

\* local files: in a partition directory, in a directory below it, and (where "/" is
\* the separator) one whose name holds a backslash
ArquivosLocais(sep) ==
    {no_sistema(f, sep) : f \in {junta(E1, novo), junta(E1, <<"a", "/", "b.parquet">>),
                                  junta(chave3(E1, A24, M01), novo)}}
    \cup (IF sep = "/" THEN {junta(E1, <<"a", "\\", "b.parquet">>)} ELSE {})

\* one backend, realizar_upload_* called directly on a machine whose separator is "/"
\* or the backslash
InitDestino ==
    /\ InitComum
    /\ SemAlheios
    /\ SemChamador
    /\ object_keys = [b \in Backends |-> << >>]
    /\ entrada = "realizar_upload"
    /\ destino_tipo \in {"azure", "s3"}
    /\ dry_run = FALSE
    /\ workers = Workers
    /\ max_concurrency = MAX_CONCURRENCY
    /\ os_sep \in {"/", "\\"}
    /\ local \in Ate(ArquivosLocais(os_sep), MaxArquivos)
    /\ cfg = [b \in Backends |-> IF alvo(b) THEN ConfigCompleta(b) ELSE {}]
    /\ \E r \in Ate(ObjetosRemotos, MaxRemotoAmbos) :
         inicial = [b \in Backends |-> IF alvo(b) THEN r ELSE {}]
    /\ store = inicial
    /\ pc = [b \in Backends |-> IF alvo(b) THEN "submetido" ELSE "ocioso"]
    /\ particoes = [b \in Backends |-> {}]
    /\ existentes = [b \in Backends |-> {}]

SpecDestino == InitDestino /\ [][Andamento]_vars

-----------------------------------------------------------------------------
(* Properties *)

\* directory of a local file, and the remote prefix of a local directory
diretorio_de(f) == sem_ultimo_segmento(f)
sob_diretorio(k, d) == startswith(k, junta(caminho_destino, d) \o <<"/">>)

\* partition key of a remote object, relative to the destination prefix
particao_de(k) == sem_prefixo_remoto(normalizar_particao(sem_ultimo_segmento(k)))

\* C1: with destino_tipo "ambos", enviar_resultados returns true only if the Azure
\* pipeline and the S3 pipeline both returned true, whatever the completion order.
C1_AmbosExigeOsDois ==
    (destino_tipo = "ambos" /\ sucesso = "True")
        => (resultado["azure"] = "True" /\ resultado["s3"] = "True")

\* C2: after a non-dry-run sync with no failure, the remote objects under every local
\* leaf partition directory are exactly the files uploaded from it in this run.
C2_ParticaoRecarregadaSemResiduo ==
    \A b \in Backends :
        (alvo(b) /\ pc[b] = "fim" /\ ~dry_run /\ falha[b] = "nenhuma" /\ erros(b) = {})
        => \A f \in local :
              /\ {k \in store[b] : sob_diretorio(k, diretorio_de(f))}
                   = {destino_path(g) : g \in {h \in local : diretorio_de(h) = diretorio_de(f)}}
              /\ {k \in store[b] : sob_diretorio(k, diretorio_de(f))} \subseteq fresh[b]

\* C3: the clean phase deletes only objects whose partition key is covered by some
\* member of the reload list.
C3_SoApagaCoberto ==
    \A b \in Backends : \A k \in deletados[b] :
        \E r \in particoes[b] : cobre(normalizar_particao(r), particao_de(k))

\* C4: in a full sync every deleted remote object lies under a local directory that
\* holds regenerated files, and the remote objects that lie under no such directory
\* are left unchanged.
C4_SyncSoApagaRegenerado ==
    \A b \in Backends :
        /\ \A k \in deletados[b] : \E f \in local : sob_diretorio(k, diretorio_de(f))
        /\ \A k \in inicial[b] :
              (~\E f \in local : sob_diretorio(k, diretorio_de(f)))
              => (k \in store[b] /\ k \notin fresh[b])

C4_Witness ==
    \E b \in Backends :
        /\ pc[b] = "fim" /\ deletados[b] # {}
        /\ \E k \in inicial[b] : /\ startswith(k, caminho_destino \o <<"/">>)
                                 /\ particao_de(k) \in existentes[b]
                                 /\ k \in store[b] /\ k \notin fresh[b]

\* tenant keys, and "p is a partition of tenant t"
Empresas == {E1, E10}
da_empresa(t, p) == cobre(t, normalizar_particao(p))
coberta(p, recarga) == \E r \in recarga : cobre(normalizar_particao(r), normalizar_particao(p))

\* C5: a tenant with an existing partition that no member of the reload set covers is
\* not in the idEmpresa level of the plan.
C5_EmpresaComResiduoNaoPromovida ==
    \A b \in Backends : pc[b] = "fim" =>
        \A t \in Empresas :
            (\E p \in existentes[b] : da_empresa(t, p) /\ ~coberta(p, particoes[b]))
            => t \notin nivel(exclusao[b], "idEmpresa")

C5_Witness ==
    \E b \in Backends :
        /\ pc[b] = "fim"
        /\ \E t \in Empresas :
              /\ t \in id_empresas({normalizar_particao(r) : r \in particoes[b]})
              /\ \E p \in existentes[b] : da_empresa(t, p) /\ ~coberta(p, particoes[b])
              /\ \E p \in existentes[b] : da_empresa(t, p) /\ coberta(p, particoes[b])
              /\ t \notin nivel(exclusao[b], "idEmpresa")
              /\ particoes_do_plano(exclusao[b]) # {}

\* C6: a tenant that appears in the reload set, has existing partitions and has every
\* one of them covered by the reload set is in the idEmpresa level of the plan.
C6_EmpresaCobertaPromovida ==
    \A b \in Backends : pc[b] = "fim" =>
        \A t \in Empresas :
            ( /\ \E r \in particoes[b] : da_empresa(t, r)
              /\ \E p \in existentes[b] : da_empresa(t, p)
              /\ \A p \in existentes[b] : da_empresa(t, p) => coberta(p, particoes[b]) )
            => t \in nivel(exclusao[b], "idEmpresa")

\* C7: no upload starts before every bulk-delete call of the delete phase has returned,
\* and an object uploaded in this run is not deleted by the run.
C7_DelecaoAntesDoUpload ==
    \A b \in Backends :
        /\ (\E f \in DOMAIN uploads[b] : uploads[b][f] # "pendente")
              => \A i \in DOMAIN lotes[b] : lotes[b][i].estado \in {"ok", "erro"}
        /\ \A f \in DOMAIN uploads[b] :
              uploads[b][f] = "ok" => (destino_path(f) \in store[b] /\ destino_path(f) \in fresh[b])

C7_Witness ==
    \E b \in Backends :
        /\ deletados[b] # {}
        /\ \E i \in DOMAIN lotes[b] : lotes[b][i].estado = "ok"
        /\ \E f \in DOMAIN uploads[b] : uploads[b][f] = "ok" /\ destino_path(f) \in deletados[b]

\* C8: if a bulk-delete chunk fails, no file is uploaded to that backend and the
\* backend's result is false.
C8_FalhaDeLoteImpedeUpload ==
    \A b \in Backends :
        (\E i \in DOMAIN lotes[b] : lotes[b][i].estado = "erro")
        => /\ uploads[b] = << >>
           /\ fresh[b] = {}
           /\ pc[b] \notin {"upload", "enviando"}
           /\ (pc[b] = "fim" /\ entrada = "enviar_resultados") => resultado[b] = "False"

C8_Witness ==
    \E b \in Backends :
        /\ \E i \in DOMAIN lotes[b] : lotes[b][i].estado = "erro"
        /\ pc[b] = "fim" /\ resultado[b] = "False"
        /\ local # {}

\* C9: if a remote listing of the clean phase fails, the sync makes no delete call and
\* no upload, and the backend returns false instead of raising.
C9_FalhaDeListagem ==
    \A b \in Backends :
        falha[b] \in {"listagem", "listagem_prefixo"}
        => /\ lotes[b] = << >> /\ deletados[b] = {}
           /\ uploads[b] = << >> /\ fresh[b] = {}
           /\ store[b] = inicial[b]
           /\ pc[b] \notin {"deletando", "upload", "enviando"}
           /\ (pc[b] = "fim" /\ entrada = "enviar_resultados") => resultado[b] = "False"

C9_Witness ==
    \E b \in Backends :
        /\ falha[b] = "listagem" /\ pc[b] = "fim" /\ resultado[b] = "False"
        /\ local # {} /\ inicial[b] # {}

\* C10: enviar_para_azure / enviar_para_s3 return true exactly when no step of the
\* pipeline raised and no file failed to upload, and they return a boolean in every case.
C10_ResultadoDoBackend ==
    \A b \in Backends :
        (pc[b] = "fim" /\ entrada = "enviar_resultados")
        => /\ resultado[b] \in {"True", "False"}
           /\ resultado[b] = "True"
                <=> (falha[b] = "nenhuma"
                     /\ \A f \in DOMAIN uploads[b] : uploads[b][f] # "erro")

C10_Witness ==
    \E b \in Backends :
        /\ pc[b] = "fim" /\ entrada = "enviar_resultados"
        /\ resultado[b] = "True" /\ fresh[b] # {} /\ deletados[b] # {}

\* C11: the upload phase issues exactly one put for every local file whatever the
\* outcome of the others; in its result the destination keys of the finished puts are
\* "enviados", every failed file is one entry of "erros", the two lengths add up to the
\* number of local files, and a failed file makes the backend's result false.
C11_TodoArquivoContadoUmaVez ==
    \A b \in Backends :
        /\ \A f \in DOMAIN tentativas[b] : tentativas[b][f] <= 1
        /\ (alvo(b) /\ pc[b] = "fim" /\ falha[b] = "nenhuma")
           => /\ DOMAIN tentativas[b] = local
              /\ \A f \in local : tentativas[b][f] = 1
              /\ Range(resultado_upload(b).enviados)
                    = {destino_path(f) : f \in {g \in local : uploads[b][g] = "ok"}}
              /\ Len(resultado_upload(b).enviados)
                    = Cardinality({g \in local : uploads[b][g] = "ok"})
              /\ Len(resultado_upload(b).erros)
                    = Cardinality({g \in local : uploads[b][g] = "erro"})
              /\ Len(resultado_upload(b).enviados) + Len(resultado_upload(b).erros)
                    = Cardinality(local)
              /\ (entrada = "enviar_resultados" /\ Len(resultado_upload(b).erros) > 0)
                    => resultado[b] = "False"

C11_Witness ==
    \E b \in Backends :
        /\ pc[b] = "fim" /\ falha[b] = "nenhuma" /\ entrada = "enviar_resultados"
        /\ Len(resultado_upload(b).enviados) = 1
        /\ Len(resultado_upload(b).erros) = 1
        /\ resultado[b] = "False"

\* the clean phase of backend b has returned without raising
limpeza_concluida(b) ==
    alvo(b) /\ falha[b] \in {"nenhuma", "upload_config"}
            /\ pc[b] \in {"upload", "enviando", "retorno", "fim"}

\* the number in the log line of the dry-run branch of the batch executor
objetos_relatados(b) == Len(object_keys[b])

\* C12: with dry_run set the sync issues no bulk-delete call, the delete phase leaves
\* the remote store as it was, the number it reports is the number of objects that
\* would have been deleted, and the upload phase runs as usual.
C12_DryRun ==
    \A b \in Backends :
        (dry_run /\ limpeza_concluida(b))
        => /\ lotes[b] = << >>
           /\ deletados[b] = {}
           /\ inicial[b] \subseteq store[b]
           /\ objetos_relatados(b) = Cardinality(Range(object_keys[b]))
           /\ (pc[b] = "fim" /\ falha[b] = "nenhuma")
                 => (DOMAIN tentativas[b] = local /\ \A f \in local : tentativas[b][f] = 1)

\* C13: for a delete list of N distinct keys and the backend's cap C the batch executor
\* makes ceil(N/C) bulk-delete calls, each with at least one and at most C keys; the
\* chunks in order are the input list, no key is in two chunks or twice in one (the
\* chunks hold as many entries as distinct keys), and every call has returned when the
\* executor returns.
C13_LotesParticionamALista ==
    \A b \in Backends :
        (alvo(b) /\ ~dry_run /\ pc[b] \in {"deletando", "fim"})
        => /\ Len(lotes[b]) * tamanho_lote(b) >= Len(object_keys[b])
           /\ Len(lotes[b]) > 0 => (Len(lotes[b]) - 1) * tamanho_lote(b) < Len(object_keys[b])
           /\ \A i \in DOMAIN lotes[b] : Len(lotes[b][i].chaves) \in 1..tamanho_lote(b)
           /\ concat([i \in DOMAIN lotes[b] |-> lotes[b][i].chaves]) = object_keys[b]
           /\ UNION {Range(lotes[b][i].chaves) : i \in DOMAIN lotes[b]} = Range(object_keys[b])
           /\ Cardinality(UNION {Range(lotes[b][i].chaves) : i \in DOMAIN lotes[b]})
                 = Len(concat([i \in DOMAIN lotes[b] |-> lotes[b][i].chaves]))
           /\ pc[b] = "fim" => \A i \in DOMAIN lotes[b] : lotes[b][i].estado \in {"ok", "erro"}

C13_Witness ==
    \E b \in Backends :
        /\ pc[b] = "fim" /\ ~dry_run
        /\ Len(object_keys[b]) = tamanho_lote(b) + 1
        /\ Len(lotes[b]) = 2
        /\ Len(lotes[b][1].chaves) = tamanho_lote(b) /\ Len(lotes[b][2].chaves) = 1
        /\ \A i \in DOMAIN lotes[b] : lotes[b][i].estado = "ok"
        /\ store[b] = {}

\* C14: the list of object keys that the clean phase builds from the plan holds every
\* object at most once, also when the plan holds a key and finer keys that it covers.
C14_SemChaveRepetida ==
    \A b \in Backends :
        \A i \in DOMAIN object_keys[b] : \A j \in DOMAIN object_keys[b] :
            i # j => object_keys[b][i] # object_keys[b][j]

\* the two months of 2024 of the scenarios
Meses2024 == {chave3(E1, A24, M01), chave3(E1, A24, M02)}

\* C15 (scenario A): with the existing set and the reload set both equal to the two
\* months of 2024 of tenant 1, the plan has idEmpresa=1/Ano=2024 in its Ano level and
\* idEmpresa=1 in its idEmpresa level.
C15_CenarioA ==
    \A b \in Backends :
        (pc[b] = "fim" /\ existentes[b] = Meses2024 /\ particoes[b] = Meses2024)
        => /\ junta(E1, A24) \in nivel(exclusao[b], "Ano")
           /\ E1 \in nivel(exclusao[b], "idEmpresa")

\* C16 (scenario B): with the reload set equal to the two months of 2024 and the
\* existing set holding idEmpresa=1/Ano=2023/Mes=12 as well, idEmpresa=1 is not in the
\* idEmpresa level and the partitions marked for exclusion are exactly the two months.
C16_CenarioB ==
    \A b \in Backends :
        ( /\ pc[b] = "fim"
          /\ existentes[b] = Meses2024 \cup {chave3(E1, A23, M12)}
          /\ particoes[b] = Meses2024 )
        => /\ E1 \notin nivel(exclusao[b], "idEmpresa")
           /\ particoes_do_plano(exclusao[b]) = Meses2024

\* C17: with an empty reload set the plan names no partition at any level, whatever
\* the existing set.
C17_RecargaVaziaPlanoVazio ==
    \A b \in Backends :
        (pc[b] = "fim" /\ particoes[b] = {})
        => /\ particoes_do_plano(exclusao[b]) = {}
           /\ \A n \in DOMAIN exclusao[b] : exclusao[b][n] = {}

C17_Witness ==
    \E b \in Backends :
        /\ pc[b] = "fim" /\ particoes[b] = {}
        /\ \E p \in existentes[b], q \in existentes[b] : da_empresa(E1, p) /\ da_empresa(E10, q)
        /\ DOMAIN exclusao[b] = {"idEmpresa"}
        /\ exclusao[b]["idEmpresa"] = {}

\* the clean phase of backend b has nothing to delete: the reload list is empty, or
\* the listing worked and no listed partition is covered by the reload list
nada_a_limpar(b) ==
    /\ alvo(b) /\ pc[b] \notin {"submetido", "limpar"}
    /\ falha[b] \notin {"config", "listagem"}
    /\ \/ particoes[b] = {}
       \/ ~\E k \in inicial[b] :
              /\ startswith(k, caminho_destino \o <<"/">>)
              /\ contem(particao_de(k), "idEmpresa=")
              /\ coberta(particao_de(k), particoes[b])

\* C18: when the reload list is empty or covers no remote partition under the
\* destination prefix, the clean phase makes no bulk-delete call and removes nothing,
\* and the upload phase runs: every local file is put once.
C18_NadaALimpar ==
    \A b \in Backends :
        nada_a_limpar(b)
        => /\ lotes[b] = << >> /\ object_keys[b] = << >>
           /\ deletados[b] = {}
           /\ inicial[b] \subseteq store[b]
           /\ falha[b] \in {"nenhuma", "upload_config"}
           /\ pc[b] \in {"upload", "enviando", "retorno", "fim"}
           /\ (pc[b] = "fim" /\ falha[b] = "nenhuma")
                 => (DOMAIN tentativas[b] = local /\ \A f \in local : tentativas[b][f] = 1)

C18_Witness ==
    \E b \in Backends :
        /\ nada_a_limpar(b) /\ pc[b] = "fim" /\ falha[b] = "nenhuma"
        /\ particoes[b] # {}
        /\ \E k \in inicial[b] : startswith(k, caminho_destino \o <<"/">>)
        /\ fresh[b] # {} /\ store[b] = inicial[b] \cup fresh[b]

\* both runs of backend b have returned with no failure
duas_execucoes_completas(b) ==
    /\ alvo(b) /\ execucao = 2 /\ pc[b] = "fim"
    /\ falha[b] = "nenhuma" /\ erros(b) = {}
    /\ primeira.completa

\* C19: two runs of the sync in succession on the same local tree have the same
\* exclusion plan and the same set of uploaded keys, and the remote store after the
\* second run is the store after the first run.
C19_DuasExecucoes ==
    \A b \in Backends :
        duas_execucoes_completas(b)
        => /\ \A n \in {"Dia", "Mes", "Ano", "idEmpresa"} :
                 nivel(exclusao[b], n) = nivel(primeira.exclusao, n)
           /\ Range(resultado_upload(b).enviados) = primeira.enviados
           /\ store[b] = primeira.store

\* C20: after the upload phase every key reported in "enviados" is in the remote store
\* and is returned by a listing of the destination prefix.
C20_EnviadosListados ==
    \A b \in Backends :
        (alvo(b) /\ pc[b] = "fim" /\ falha[b] = "nenhuma")
        => \A k \in Range(resultado_upload(b).enviados) :
              /\ k \in store[b]
              /\ k \in listar(store[b], caminho_destino)

C20_Witness ==
    \E b \in Backends :
        /\ pc[b] = "fim" /\ falha[b] = "nenhuma"
        /\ Len(resultado_upload(b).enviados) = 2
        /\ deletados[b] # {}
        /\ \E k \in store[b] : k \notin Range(resultado_upload(b).enviados)

-----------------------------------------------------------------------------
\* C21: a backend whose configuration lacks a credential or the bucket / container
\* identifier fails before any remote operation: its sync stops at the validation
\* (no listing), no bulk-delete chunk and no put is ever issued, the remote store is
\* untouched, and the value it returns to the coordinator is false
C21_ConfigIncompletaSemOperacaoRemota ==
    \A b \in Backends :
        (alvo(b) /\ cfg[b] # ConfigCompleta(b)) =>
            /\ pc[b] \in {"submetido", "retorno", "fim"}
            /\ pc[b] # "submetido" => falha[b] = "config"
            /\ lotes[b] = << >> /\ deletados[b] = {}
            /\ uploads[b] = << >> /\ fresh[b] = {}
            /\ store[b] = inicial[b]
            /\ (entrada = "enviar_resultados" /\ pc[b] = "fim") => resultado[b] = "False"

-----------------------------------------------------------------------------
\* C22: the completion marker is sent only when every dataset sync of the run
\* reported success: once enviar_resultados has returned a false value or raised for
\* a dataset, main never makes the marker's upload call
C22_MarcadorSoAposTodosOsSucessos ==
    (\E i \in DOMAIN retornos : retornos[i] # "True") => atualizacao = "nao"

\* main has finished a run of the expected eight datasets in which one call raised
\* and all others returned True, and the marker was not sent
C22_Witness ==
    /\ pc_main = "fim"
    /\ Len(retornos) = CONSULTAS_ESPERADAS
    /\ Cardinality({i \in DOMAIN retornos : retornos[i] = "Raise"}) = 1
    /\ \A i \in DOMAIN retornos : retornos[i] \in {"True", "Raise"}
    /\ atualizacao = "nao"

-----------------------------------------------------------------------------
\* C23: with a local dataset directory that holds no file, the upload phase issues no
\* put call and returns an empty result (no sent key, no error), and the backend is
\* reported as succeeded
C23_DiretorioVazio ==
    \A b \in Backends :
        (alvo(b) /\ local = {}) =>
            /\ fresh[b] = {} /\ uploads_em_execucao(b) = {}
            /\ \A f \in DOMAIN tentativas[b] : tentativas[b][f] = 0
            /\ (pc[b] = "fim" /\ falha[b] = "nenhuma") =>
                  /\ resultado_upload(b) = [enviados |-> << >>, erros |-> << >>]
                  /\ resultado[b] = IF entrada = "enviar_resultados" THEN "True" ELSE "Dict"

\* a sync of an empty directory has gone through its upload phase and returned
C23_Witness ==
    \E b \in Backends :
        /\ alvo(b) /\ local = {} /\ entrada = "enviar_resultados"
        /\ pc[b] = "fim" /\ falha[b] = "nenhuma"
        /\ uploads[b] = << >> /\ resultado[b] = "True"

-----------------------------------------------------------------------------
\* C24: a remote call that never returns does not block the sync forever: every
\* backend sync eventually terminates with a result
C24_TodoSyncTermina ==
    <>(\A b \in Backends : alvo(b) => (pc[b] = "fim" /\ resultado[b] # "None"))

-----------------------------------------------------------------------------
\* C25: at every moment of a backend sync the bulk-delete calls in flight are at most
\* workers and the put calls in flight are at most max_concurrency, two separate
\* parameters
C25_ChamadasEmVooLimitadas ==
    \A b \in Backends :
        /\ Cardinality(lotes_em_execucao(b)) <= workers
        /\ Cardinality(uploads_em_execucao(b)) <= max_concurrency

\* a sync with workers = 1 and max_concurrency = 2 whose delete phase had more chunks
\* than workers and whose upload phase has two puts in flight
C25_Witness ==
    \E b \in Backends :
        /\ workers = 1 /\ max_concurrency = 2
        /\ Len(lotes[b]) > workers
        /\ Cardinality(uploads_em_execucao(b)) = 2

-----------------------------------------------------------------------------
\* the last segment of key k is a segment of the given token ("Ano=", "Mes=")
termina_em(k, token) == Len(k) > ultima_barra(k) /\ k[ultima_barra(k) + 1] = token

\* the existing partitions under key k are all reloaded, and there are some
sob_a_chave_tudo_recarregado(E, R, k) ==
    /\ existentes_sob(E, k) # {}
    /\ existentes_sob(E, k) \subseteq {normalizar_particao(r) : r \in R}

\* C26: in date-hierarchy mode every key placed in a coarser level of the plan is a
\* key of that level (a key in Mes ends with a Mes= segment, a key in Ano ends with an
\* Ano= segment), and it is placed there only if the existing partitions under it
\* are the reloaded ones
C26_ChaveDoNivel ==
    \A b \in Backends :
        (pc[b] = "fim" /\ DOMAIN exclusao[b] # {"idEmpresa"}) =>
            /\ \A k \in nivel(exclusao[b], "Ano") :
                  /\ termina_em(k, "Ano=")
                  /\ sob_a_chave_tudo_recarregado(existentes[b], particoes[b], k)
            /\ b = "s3" =>
                  \A k \in nivel(exclusao[b], "Mes") :
                     /\ termina_em(k, "Mes=")
                     /\ sob_a_chave_tudo_recarregado(existentes[b], particoes[b], k)

-----------------------------------------------------------------------------
\* C27: the remote lister returns every object key stored under the given prefix,
\* whatever the number of result pages
C27_ListagemCompleta ==
    \A b \in Backends :
        (pc[b] = "fim" /\ falha[b] = "nenhuma") =>
            listados[b] = {k \in store[b] : startswith(k, prefix)}

\* the S3 lister has returned more keys than one page holds
C27_Witness ==
    /\ pc["s3"] = "fim" /\ falha["s3"] = "nenhuma"
    /\ Cardinality(listados["s3"]) > MaxKeysPagina
    /\ \E k \in store["s3"] : k \notin listados["s3"]

-----------------------------------------------------------------------------
\* C28: in the batch delete executor a failing chunk does not stop the others: every
\* chunk of the list is submitted and its bulk-delete call is made exactly once, and
\* after all chunks have finished the executor raises if and only if a chunk failed
C28_TodosOsLotesUmaVez ==
    \A b \in Backends :
        /\ \A i \in DOMAIN lotes[b] : lotes[b][i].chamadas <= 1
        /\ (alvo(b) /\ pc[b] = "fim" /\ ~dry_run) =>
              /\ DOMAIN lotes[b] = DOMAIN chunk_list(object_keys[b], tamanho_lote(b))
              /\ \A i \in DOMAIN lotes[b] :
                    lotes[b][i].chamadas = 1 /\ lotes[b][i].estado \in {"ok", "erro"}
              /\ (falha[b] = "delete") <=> (\E i \in DOMAIN lotes[b] : lotes[b][i].estado = "erro")

\* the executor has raised after a run of two chunks in which the first failed and
\* the second was called and succeeded
C28_Witness ==
    \E b \in Backends :
        /\ pc[b] = "fim" /\ falha[b] = "delete"
        /\ Len(lotes[b]) = 2
        /\ lotes[b][1].estado = "erro" /\ lotes[b][2].estado = "ok"
        /\ lotes[b][2].chamadas = 1

-----------------------------------------------------------------------------
\* C29: in date-hierarchy mode every reloaded key of the finest level of the reload
\* set is in the plan: for a dataset partitioned idEmpresa/Ano/Mes with no Dia level,
\* each reloaded month key that exists remotely is marked for exclusion, in the S3
\* planner as well as in the Azure planner
C29_MesRecarregadoNoPlano ==
    \A b \in Backends :
        (pc[b] = "fim" /\ \A r \in particoes[b] : ~contem(r, "Dia=")) =>
            \A r \in particoes[b] :
                (contem(r, "Mes=") /\ normalizar_particao(r) \in existentes_sob(existentes[b], << >>))
                    => normalizar_particao(r) \in particoes_do_plano(exclusao[b])

-----------------------------------------------------------------------------
\* the objects of a store under a prefix of the plan
sob_o_plano(objetos, plano) ==
    {k \in objetos : \E p \in particoes_do_plano(plano) : startswith(k, prefixo_completo(p))}

\* C30: the list of keys the delete phase builds from the plan holds every remote
\* object stored under every plan prefix, however many objects a prefix holds, and
\* after a successful non-dry-run delete phase no object remains under a plan prefix
C30_ListaCobreOPlano ==
    \A b \in Backends :
        (alvo(b) /\ falha[b] = "nenhuma" /\ ~dry_run) =>
            /\ pc[b] \in {"deletando", "upload"} =>
                  sob_o_plano(inicial[b], exclusao[b]) \subseteq Range(object_keys[b])
            /\ pc[b] = "upload" => sob_o_plano(store[b], exclusao[b]) = {}

-----------------------------------------------------------------------------
\* no reload key contains a date token
sem_token_de_data(R) ==
    \A r \in R : \A token \in {"Ano=", "Mes=", "Dia="} : ~contem(r, token)

\* C31: in tenant-only mode the plan has only the idEmpresa level, and a tenant key
\* present in the reload set is in it if and only if at least one existing partition
\* starts with that tenant key
C31_SomenteEmpresa ==
    \A b \in Backends :
        (pc[b] = "fim" /\ sem_token_de_data(particoes[b])) =>
            /\ DOMAIN exclusao[b] \subseteq {"idEmpresa"}
            /\ nivel(exclusao[b], "idEmpresa") \subseteq Empresas
            /\ \A t \in Empresas :
                  t \in {normalizar_particao(r) : r \in particoes[b]} =>
                     (t \in nivel(exclusao[b], "idEmpresa")
                        <=> \E p \in existentes[b] : startswith(normalizar_particao(p), t))

\* a tenant-only plan that holds one reloaded tenant and leaves out the other, which
\* has no existing partition
C31_Witness ==
    \E b \in Backends :
        /\ pc[b] = "fim" /\ particoes[b] = {E1, E10}
        /\ exclusao[b] = [n \in {"idEmpresa"} |-> {E1}]

-----------------------------------------------------------------------------
\* k is prefixo, a "/", and the relative path f with every separator written "/"
chave_esperada(k, prefixo, f) ==
    /\ Len(k) = Len(prefixo) + 1 + Len(f)
    /\ SubSeq(k, 1, Len(prefixo)) = prefixo
    /\ k[Len(prefixo) + 1] = "/"
    /\ \A i \in 1..Len(f) :
          k[Len(prefixo) + 1 + i] = (IF f[i] = os_sep THEN "/" ELSE f[i])

\* C32: each local file is mapped to the destination prefix, a "/" and its path
\* relative to the dataset root with "/" separators, and two distinct local files
\* never map to the same destination key
C32_ChaveDeDestino ==
    \A b \in Backends :
        alvo(b) =>
            /\ \A k \in fresh[b] :
                  \E f \in DOMAIN uploads[b] : chave_esperada(k, caminho_destino, f)
            /\ \A f \in DOMAIN uploads[b] :
                  uploads[b][f] = "ok" =>
                     \E k \in fresh[b] : chave_esperada(k, caminho_destino, f)
            /\ Cardinality(fresh[b]) = Cardinality({f \in DOMAIN uploads[b] : uploads[b][f] = "ok"})

\* two files whose paths differ only in a backslash against a "/" have both been
\* uploaded, on a machine whose separator is "/"
C32_Witness ==
    \E b \in Backends :
        /\ os_sep = "/"
        /\ local = {junta(E1, <<"a", "/", "b.parquet">>), junta(E1, <<"a", "\\", "b.parquet">>)}
        /\ pc[b] = "fim" /\ Cardinality(fresh[b]) = 2

\* the configured queries that have no result folder, or whose send was not
\* recorded as a success
consultas_sem_sucesso ==
    {i \in DOMAIN consultas :
        \A j \in DOMAIN pastas_resultados :
            pastas_resultados[j] = consultas[i] =>
                (j \notin DOMAIN consultas_status \/ consultas_status[j] # "True")}

\* C33: the marker is sent only if every configured query produced a result
\* folder and was sent with success, whatever the number of configured queries
C33_MarcadorSoComTodasAsConsultas ==
    atualizacao # "nao" => consultas_sem_sucesso = {}

\* the partitions of tenant t in an existing set
proprias(t, X) == {p \in X : da_empresa(t, p)}

\* C34: whether tenant t is promoted to the idEmpresa level depends only on the
\* existing partitions of t: every existing set that agrees with the one planned
\* on the partitions of t gives the same decision for t
C34_DecisaoSoDasProprias ==
    \A b \in Backends : pc[b] = "fim" =>
        \A t \in Empresas : \A X \in Ate(ChavesParticao, MaxExistentes) :
            proprias(t, X) = proprias(t, existentes[b]) =>
                (t \in nivel(definir_particoes_para_exclusao(b, X, particoes[b]), "idEmpresa")
                    <=> t \in nivel(exclusao[b], "idEmpresa"))

-----------------------------------------------------------------------------
\* the existing partitions under a prefix of the plan
marcadas(plano, X) ==
    {p \in X : \E q \in particoes_do_plano(plano) : cobre(q, normalizar_particao(p))}

outro(b) == IF b = "s3" THEN "azure" ELSE "s3"

\* C35: for a reload set whose keys hold no Dia= segment, the S3 planner and the
\* Azure planner mark the same existing partitions for deletion
C35_MesmoPlanoNosDoisDestinos ==
    \A b \in Backends :
        (pc[b] = "fim" /\ \A r \in particoes[b] : ~contem(r, "Dia=")) =>
            marcadas(exclusao[b], existentes[b])
              = marcadas(definir_particoes_para_exclusao(outro(b), existentes[b], particoes[b]),
                         existentes[b])

-----------------------------------------------------------------------------
\* C36: the clean phase for the destination prefix never puts in its delete list,
\* and never deletes, an object outside caminho_destino + "/": the objects of a
\* sibling dataset whose prefix starts with the same characters stay
C36_SoApagaSobODestino ==
    \A b \in Backends :
        /\ \A k \in Range(object_keys[b]) \cup deletados[b] :
              startswith(k, caminho_destino \o <<"/">>)
        /\ \A k \in inicial[b] : ~startswith(k, caminho_destino \o <<"/">>) => k \in store[b]

C36_Witness ==
    \E b \in Backends :
        /\ pc[b] = "fim" /\ deletados[b] # {}
        /\ \E k \in inicial[b] :
              /\ startswith(k, destino_vizinho)
              /\ k \in listar(inicial[b], caminho_destino)
              /\ k \in store[b]

-----------------------------------------------------------------------------
(* The control agent: /start and /stop handlers, monitor threads, subprocesses.
   Flask serves every request in its own thread; a thread can be overtaken where it
   blocks (the status post, Popen, wait), and the steps below are cut there. *)

MaxPedidos == 3

sincronizacao == <<principal, listagem, entradas, historico, coordenador, sync>>

pedido(tipo) == [tipo |-> tipo, pc |-> "recebido", p |-> 0, codigo |-> 0]

responde(i, codigo) == [pedidos EXCEPT ![i].pc = "respondido", ![i].codigo = codigo]

\* processo_esta_rodando(processo_sistema.pid)
processo_esta_rodando(pid) == pid \in vivos

\* iniciar_sistema, the test at its head
IniciarVerifica(i) ==
    /\ pedidos[i].tipo = "start" /\ pedidos[i].pc = "recebido"
    /\ IF sistema_executando
       THEN IF processo_sistema # 0 /\ processo_esta_rodando(processo_sistema)
            THEN /\ pedidos' = responde(i, 400)
                 /\ UNCHANGED <<sistema_executando, processo_sistema>>
            ELSE /\ sistema_executando' = FALSE
                 /\ processo_sistema' = 0
                 /\ pedidos' = [pedidos EXCEPT ![i].pc = "marcar"]
       ELSE /\ pedidos' = [pedidos EXCEPT ![i].pc = "marcar"]
            /\ UNCHANGED <<sistema_executando, processo_sistema>>
    /\ UNCHANGED <<status_sistema, vivos, monitores, repeticao, sincronizacao>>

\* iniciar_sistema, up to the status post
IniciarMarca(i) ==
    /\ pedidos[i].tipo = "start" /\ pedidos[i].pc = "marcar"
    /\ sistema_executando' = TRUE
    /\ status_sistema' = "rodando"
    /\ pedidos' = [pedidos EXCEPT ![i].pc = "popen"]
    /\ UNCHANGED <<processo_sistema, vivos, monitores, repeticao, sincronizacao>>

\* the pid of the next subprocess
novo_pid == Cardinality(DOMAIN monitores) + 1

\* iniciar_sistema, Popen and the start of the monitor thread, or the except branch
IniciarPopen(i) ==
    /\ pedidos[i].tipo = "start" /\ pedidos[i].pc = "popen"
    /\ \E ok \in BOOLEAN :
         IF ok
         THEN /\ vivos' = vivos \cup {novo_pid}
              /\ processo_sistema' = novo_pid
              /\ monitores' = [m \in DOMAIN monitores \cup {novo_pid} |->
                                 IF m = novo_pid THEN [pc |-> "inicio", alvo |-> 0]
                                 ELSE monitores[m]]
              /\ pedidos' = responde(i, 200)
              /\ UNCHANGED <<sistema_executando, status_sistema>>
         ELSE /\ sistema_executando' = FALSE
              /\ status_sistema' = "parado"
              /\ pedidos' = responde(i, 500)
              /\ UNCHANGED <<processo_sistema, vivos, monitores>>
    /\ UNCHANGED <<repeticao, sincronizacao>>

\* parar_sistema, the test at its head
PararVerifica(i) ==
    /\ pedidos[i].tipo = "stop" /\ pedidos[i].pc = "recebido"
    /\ pedidos' = IF ~sistema_executando THEN responde(i, 400)
                  ELSE [pedidos EXCEPT ![i].pc = "terminar"]
    /\ UNCHANGED <<sistema_executando, status_sistema, processo_sistema, vivos, monitores,
                   repeticao, sincronizacao>>

\* parar_sistema with no process held: the flag and the status are reset; with a
\* process: terminate() and the start of wait(timeout=10), the process ends on the
\* signal or does not
PararTermina(i) ==
    /\ pedidos[i].tipo = "stop" /\ pedidos[i].pc = "terminar"
    /\ IF processo_sistema = 0
       THEN /\ sistema_executando' = FALSE
            /\ status_sistema' = "parado"
            /\ pedidos' = responde(i, 200)
            /\ UNCHANGED vivos
       ELSE /\ pedidos' = [pedidos EXCEPT ![i].pc = "aguardando", ![i].p = processo_sistema]
            /\ \E termina \in BOOLEAN :
                 vivos' = IF termina THEN vivos \ {processo_sistema} ELSE vivos
            /\ UNCHANGED <<sistema_executando, status_sistema>>
    /\ UNCHANGED <<processo_sistema, monitores, repeticao, sincronizacao>>

\* parar_sistema after the wait: the process has ended and the state is reset, or
\* the wait timed out and only the finally clause runs
PararAcorda(i) ==
    /\ pedidos[i].tipo = "stop" /\ pedidos[i].pc = "aguardando"
    /\ processo_sistema' = 0
    /\ IF pedidos[i].p \notin vivos
       THEN /\ sistema_executando' = FALSE
            /\ status_sistema' = "parado"
            /\ pedidos' = responde(i, 200)
       ELSE /\ pedidos' = responde(i, 500)
            /\ UNCHANGED <<sistema_executando, status_sistema>>
    /\ UNCHANGED <<vivos, monitores, repeticao, sincronizacao>>

\* monitorar_sistema: it waits on the process the global holds when it runs
MonitorInicio(m) ==
    /\ monitores[m].pc = "inicio"
    /\ monitores' = [monitores EXCEPT ![m] =
          IF processo_sistema # 0 THEN [pc |-> "esperando", alvo |-> processo_sistema]
          ELSE [pc |-> "fim", alvo |-> 0]]
    /\ UNCHANGED <<sistema_executando, status_sistema, processo_sistema, vivos, pedidos,
                   repeticao, sincronizacao>>

\* monitorar_sistema after wait(): processo_sistema.returncode raises when the global
\* is None by now; otherwise the flag and the status are reset
MonitorAcorda(m) ==
    /\ monitores[m].pc = "esperando"
    /\ monitores[m].alvo \notin vivos
    /\ IF processo_sistema = 0
       THEN /\ monitores' = [monitores EXCEPT ![m].pc = "fim"]
            /\ UNCHANGED <<sistema_executando, status_sistema>>
       ELSE /\ sistema_executando' = FALSE
            /\ status_sistema' = "parado"
            /\ monitores' = [monitores EXCEPT ![m].pc = "limpar"]
    /\ UNCHANGED <<processo_sistema, vivos, pedidos, repeticao, sincronizacao>>

\* monitorar_sistema after the status post: processo_sistema = None
MonitorLimpa(m) ==
    /\ monitores[m].pc = "limpar"
    /\ processo_sistema' = 0
    /\ monitores' = [monitores EXCEPT ![m].pc = "fim"]
    /\ UNCHANGED <<sistema_executando, status_sistema, vivos, pedidos, repeticao,
                   sincronizacao>>

\* main.py ends by itself
ProcessoTermina(p) ==
    /\ p \in vivos
    /\ vivos' = vivos \ {p}
    /\ UNCHANGED <<sistema_executando, status_sistema, processo_sistema, pedidos, monitores,
                   repeticao, sincronizacao>>

\* the sync, main and executar_consulta are not running
SemSync ==
    /\ InitComum
    /\ ParametrosPadrao
    /\ SemChamador
    /\ object_keys = [b \in Backends |-> << >>]
    /\ entrada = "agente"
    /\ destino_tipo = "ambos"
    /\ dry_run = FALSE
    /\ local = {}
    /\ cfg = [b \in Backends |-> ConfigCompleta(b)]
    /\ inicial = [b \in Backends |-> {}]
    /\ store = inicial
    /\ pc = [b \in Backends |-> "ocioso"]
    /\ particoes = [b \in Backends |-> {}]
    /\ existentes = [b \in Backends |-> {}]

\* the agent after iniciar_agente: registrar_status took the state the server holds,
\* no subprocess is held; up to MaxPedidos requests arrive
InitAgente ==
    /\ SemSync
    /\ sistema_executando \in BOOLEAN
    /\ status_sistema = IF sistema_executando THEN "rodando" ELSE "parado"
    /\ processo_sistema = 0
    /\ vivos = {}
    /\ \E n \in 1..MaxPedidos :
         pedidos \in [1..n -> {pedido("start"), pedido("stop")}]
    /\ monitores = << >>
    /\ respostas = << >>
    /\ tentativa = 0
    /\ pc_consulta = "ocioso"
    /\ retorno_consulta = "None"

NextAgente ==
    \/ \E i \in DOMAIN pedidos : IniciarVerifica(i)
    \/ \E i \in DOMAIN pedidos : IniciarMarca(i)
    \/ \E i \in DOMAIN pedidos : IniciarPopen(i)
    \/ \E i \in DOMAIN pedidos : PararVerifica(i)
    \/ \E i \in DOMAIN pedidos : PararTermina(i)
    \/ \E i \in DOMAIN pedidos : PararAcorda(i)
    \/ \E m \in DOMAIN monitores : MonitorInicio(m)
    \/ \E m \in DOMAIN monitores : MonitorAcorda(m)
    \/ \E m \in DOMAIN monitores : MonitorLimpa(m)
    \/ \E p \in vivos : ProcessoTermina(p)

SpecAgente == InitAgente /\ [][NextAgente]_vars

\* C37: under any interleaving of /start requests, /stop requests and monitor
\* threads at most one subprocess started by the agent is alive, and the status is
\* "parado" only when none is alive
C37_UmProcessoEStatusFiel ==
    /\ Cardinality(vivos) <= 1
    /\ status_sistema = "parado" => vivos = {}

-----------------------------------------------------------------------------
(* executar_consulta: the retry loop around pd.read_sql *)

\* retries = 5
RETRIES == 5

\* what an attempt meets: rows (processar_dados is called), an empty DataFrame,
\* an OperationalError, another exception
Respostas == {"linhas", "vazio", "OperationalError", "Exception"}

repete_qualquer_erro(resposta) == resposta \in {"OperationalError", "Exception"}

\* except OperationalError: the only branch that does not return
repete(resposta) == resposta = "OperationalError"

\* the value an attempt returns when it returns
retorno_da_tentativa(resposta) ==
    IF resposta = "linhas" THEN "processar_dados" ELSE "vazio"

\* one pass of the loop body
Tentar ==
    /\ pc_consulta = "laco"
    /\ tentativa < RETRIES
    /\ tentativa' = tentativa + 1
    /\ IF repete(respostas[tentativa + 1])
       THEN /\ pc_consulta' = "dormindo"
            /\ UNCHANGED retorno_consulta
       ELSE /\ pc_consulta' = "fim"
            /\ retorno_consulta' = retorno_da_tentativa(respostas[tentativa + 1])
    /\ UNCHANGED <<respostas, agente, sincronizacao>>

\* time.sleep(5) returns
Dormir ==
    /\ pc_consulta = "dormindo"
    /\ pc_consulta' = "laco"
    /\ UNCHANGED <<respostas, tentativa, retorno_consulta, agente, sincronizacao>>

\* the loop is exhausted: return "", set()
Esgotar ==
    /\ pc_consulta = "laco"
    /\ tentativa = RETRIES
    /\ pc_consulta' = "fim"
    /\ retorno_consulta' = "vazio"
    /\ UNCHANGED <<respostas, tentativa, agente, sincronizacao>>

InitRepeticao ==
    /\ SemSync
    /\ sistema_executando = FALSE
    /\ status_sistema = "parado"
    /\ processo_sistema = 0
    /\ vivos = {}
    /\ pedidos = << >>
    /\ monitores = << >>
    /\ respostas \in [1..RETRIES -> Respostas]
    /\ tentativa = 0
    /\ pc_consulta = "laco"
    /\ retorno_consulta = "None"

NextRepeticao ==
    \/ Tentar
    \/ Dormir
    \/ Esgotar

\* the loop is sequential code: a call that returns or raises and a sleep that ends
\* are followed by the next statement
SpecRepeticao == InitRepeticao /\ [][NextRepeticao]_vars /\ WF_vars(NextRepeticao)

\* the attempts up to n all met an OperationalError
so_erros_de_conexao(n) == \A j \in 1..n : respostas[j] = "OperationalError"

\* state part of C38
limite_e_retorno ==
    /\ tentativa <= RETRIES
    /\ pc_consulta \in {"laco", "dormindo"} => so_erros_de_conexao(tentativa)
    /\ pc_consulta = "fim" =>
          /\ so_erros_de_conexao(tentativa - 1) \/ tentativa = 0
          /\ IF so_erros_de_conexao(tentativa)
             THEN tentativa = RETRIES /\ retorno_consulta = "vazio"
             ELSE retorno_consulta =
                    (IF respostas[tentativa] = "linhas" THEN "processar_dados" ELSE "vazio")

\* C38: executar_consulta runs the query at most 5 times, goes on only after an
\* OperationalError, returns at once the empty result on another exception or an
\* empty DataFrame, returns the empty result after the fifth OperationalError,
\* and always returns
C38_NoMaximoCincoVezes == [](limite_e_retorno) /\ <>(pc_consulta = "fim")

C38_Witness ==
    /\ pc_consulta = "fim"
    /\ tentativa = RETRIES
    /\ so_erros_de_conexao(RETRIES)
    /\ retorno_consulta = "vazio"

====
